---------------------------- MODULE Spec2Model ----------------------------
(***************************************************************************)
(* A model of the topotato core: the ordered event Timeline (EventMux and  *)
(* EventIter of topotato/timeline.py) and the FRR daemon supervisor        *)
(* (FRRRouterNS of topotato/frr/core.py): the vtysh control-socket         *)
(* protocol, start_daemon and stop_daemon.                                 *)
(*                                                                         *)
(* Each subsystem has its own specification (SpecTimeline, ...): its Init  *)
(* parks the variables of the other subsystems at their idle values and    *)
(* its Next leaves them unchanged.                                         *)
(***************************************************************************)
EXTENDS Integers, Sequences, FiniteSets, TLC

\* Optional values: None is the empty tuple, a value v is <<v>>
None == <<>>
Some(v) == <<v>>

(***************************************************************************)
(* Bounds of the model.                                                    *)
(***************************************************************************)
\* timestamps of dispatched elements are drawn from 1..MaxTime
MaxTime == 3
\* sequence numbers (second component of ts) are drawn from 0..MaxSeq
MaxSeq == 1
\* elements dispatched in one behaviour
MaxEvents == 4
\* elements of one dispatch() call (a batch may also be empty)
MaxBatch == 2
\* dispatch() calls with an empty list in one behaviour
MaxEmpty == 1
\* EventIter objects observing the mux
NumIters == 1
\* characters of a command string given to vtysh_async
MaxStrLen == 3
\* commands of a list given to vtysh_async
MaxCmds == 2
\* bytes of one response of a daemon that answers with arbitrary bytes
MaxResp == 6
\* bytes of one response of a daemon that answers with return codes only
MaxShortResp == 4

\* aioloop.sock_recv(sock, 4096)
RecvSize == 4096

VARIABLES
    \* ---- timeline.py: EventMux / EventIter
    history,        \* EventMux.history
    dispatchers,    \* EventMux._dispatch: registered receivers, in order
    iters,          \* the EventIter objects: state, _backfill, _queue, _pending
    arrivals,       \* every element handed to EventMux.dispatch, in call order
    nempty,         \* number of dispatch([]) calls so far
    \* ---- frr/core.py: one vtysh_polled / vtysh_async call
    v_pc,           \* where the call is
    v_input,        \* the cmds argument as the caller gave it
    cmds,           \* local cmds: the commands not sent yet
    cmd,            \* local cmd: the command sent last
    sock,           \* the control socket of the call: "none", "open", "closed"
    sends,          \* the byte strings written by sock_sendall, in order
    cur_out,        \* local cur_out: the bytes received for the current command
    output,         \* local output: the TimedVtysh events of the call
    emitted,        \* the events handed to self.events.dispatch, in order
    retcode,        \* local retcode
    v_pid,          \* local pid, read from the peer credentials
    v_result,       \* the returned (pid, output, retcode), or None
    v_exc,          \* the exception the call raised, or None
    \* ---- the daemon's end of the control socket
    sockPath,       \* the socket file: "missing", "refusing", "listening"
    pathTooLong,    \* the socket path exceeds the AF_UNIX limit
    daemonPid,      \* pid of the process listening on the socket
    inflight,       \* bytes the daemon wrote that the harness has not read
    peerClosed,     \* the daemon closed its end of the connection
    respLen,        \* bytes the daemon wrote since the last command was sent
    daemonBytes,    \* the byte values this daemon writes
    respMax,        \* the most bytes this daemon writes for one command
    \* ---- frr/core.py: FRRRouterNS and the daemon processes
    pids,           \* FRRRouterNS.pids: daemon name -> recorded pid
    procs,          \* the daemon processes: "none", "running", "gone"
    signals,        \* the os.kill calls that found their process, in order
    \* ---- frr/core.py: one start_daemon call
    sd_pc,          \* where the call is
    sd_daemon,      \* argument daemon
    defer_config,   \* argument defer_config
    cmdline,        \* local cmdline
    launched,       \* the argument lists check_call has run, in order
    retry,          \* loop variable retry
    attempts,       \* vtysh_polled calls made by this start_daemon call
    naps,           \* time.sleep(0.1) calls made by this start_daemon call
    sd_exc,         \* the exception the call raised, or NoException
    \* ---- frr/core.py: stop_daemon calls
    st_pc,          \* where the current call is
    st_daemon,      \* argument daemon
    st_pid,         \* local pid
    st_i,           \* loop variable i
    st_exc,         \* the exception the call raised, or NoException
    firstKill,      \* what the first os.kill of the call found
    sigsBefore,     \* how many signals had been sent when the call began
    polls,          \* per poll of the call: the delay slept before it (in
                    \* tenths of a second) and whether the process was found
    ncalls,         \* stop_daemon calls begun so far
    \* ---- the router's daemons over a sequence of supervisor calls
    believed,       \* the daemons that were started successfully and have not
                    \* since been stopped or found gone by the supervisor
    orphans,        \* per daemon: its live processes other than the latest
    rs_pc,          \* where the current restart_daemon call is
    rs_daemon,      \* argument daemon of restart_daemon
    ep_pc,          \* where the current end_prep call is
    ep_items,       \* the (daemon, pid) items end_prep has still to visit
    nops,           \* supervisor calls begun so far
    \* ---- the post-start health check of do_start
    configs,        \* per router: the daemons it has a configuration for
    frr_daemons,    \* the daemons of the FRR build
    health,         \* per router and daemon: how its control socket answers
    failed,         \* the list of (router, daemon) pairs of do_start
    queried,        \* the (router, daemon) pairs sent the version query
    ds_pc,          \* where do_start is
    ds_i,           \* index of the router whose start_post is next
    ds_exc,         \* the exception do_start ended with
    \* ---- timed polling: TimingParams.ticks() and the loops that use it
    clock,          \* time.time()
    started_ts,     \* started_ts of the test function, the anchor
    tk_n,           \* how many polling assertions have begun
    tk_pc,          \* where the current polling loop is
    tk_delay,       \* TimingParams.delay of the current assertion
    tk_maxwait,     \* TimingParams.maxwait of the current assertion
    tk_now,         \* local now of ticks()
    nexttick,       \* local nexttick of ticks(), None before it is set
    tk_deadline,    \* local deadline of ticks(), None before it is set
    tk_ticks,       \* the ticks yielded to the current polling loop
    tk_tries,       \* attempts made by the current polling loop
    tk_prev,        \* the polling loop before the current one, at its end
    \* ---- file descriptor leak checks
    fdtable,        \* the descriptor table of the process: per number, the
                    \* (type, device, inode) of what it refers to, or None
    snaps,          \* the FDState snapshots taken so far
    tables,         \* the descriptor table as it was at each snapshot
    fd_ops,         \* the kinds of descriptor operations since the first snapshot
    \* ---- the cleanup closures of a virtual host (BaseNS)
    ax_fns,         \* the closures and wrapped context managers made so far
    ax_list,        \* BaseNS._atexit, as closure numbers
    ax_reg,         \* the closure numbers in the order of the atexit() calls
    ax_stack,       \* the wrappers whose with block is open, innermost last
    ax_pc,          \* where _do_atexit is
    ax_i,           \* position of the loop of _do_atexit in _atexit
    ax_ran,         \* the closures called by _do_atexit, with what they raised
    ax_warn,        \* the closures an AtexitExceptionIgnoredWarning was
                    \* issued for
    ctx_exits,      \* per wrapper: the __exit__ calls of its context manager
    ctx_gone,       \* the wrappers whose weakly held context manager is gone
    ax_runs,        \* _do_atexit calls so far
    ctx_raised,     \* the wrappers whose with block ended with an exception
    topo,           \* the links and LANs of the network under test
    n_pc,           \* where the instance is: idle, a loop of start(), running, a loop of stop()
    n_i,            \* index of the loop of start() or stop() in progress
    n_log,          \* what has been done to hosts and bridges, in order
    n_bridges,      \* NetworkInstance.bridges
    n_scapys,       \* keys of NetworkInstance.scapys
    n_atexit,       \* the atexit list of the switch host
    skipall_node,   \* cls_node.skipall_node: none, InstanceStartup or item
    n_exc,          \* the exception that ended start, or NoExc
    n_items,        \* test items run between startup and shutdown
    cur_ns,         \* the namespace of each type the harness process is in
    ns_proc,        \* the namespaces whose caretaker process is set (started)
    ns_stack,       \* the with-blocks entered and not yet left, innermost last
    ns_after,       \* the with-block just left, None inside or before a block
    ns_exc,         \* the exception propagating in the harness, or NoExc
    ns_last,        \* the last __enter__: where it began, its system calls
    ct_pc,          \* the caretaker: none, setup, select, handle, blocked, exited
    ct_out,         \* what the caretaker wrote to its stdout, in order
    ct_zombies,     \* children of the caretaker that exited and are not reaped
    ct_sigchld,     \* the SIGCHLD pipe of the caretaker holds a byte
    ct_fds,         \* the descriptors the caretaker's last select reported
    ct_stdin,       \* the caretaker's stdin: open, or closed after a newline
    ct_children,    \* children of the caretaker that have exited so far
    p_pc,           \* the parent: none, wait_ready, running, end_wait, ended
    p_ends,         \* end() calls made while no caretaker was ever started
    cn_tasks,       \* per batch: where its vtysh_async call is, its socket, commands left
    cn_conns,       \* every control-socket connection made so far
    lp_tasks,       \* per task of the event loop: its operation, position and wait
    lp_holder,      \* the task the event loop is running, 0 when it is free
    me_heap,        \* the dict objects: os.environ, the two override dicts, the caller's env, the child's env
    me_given,       \* the caller passes env
    me_pre,         \* the dict objects as they were before the last call
    me_op,          \* the last call: none, popen, check_call or check_output
    mx_hist,        \* history of each event mux
    mx_disp,        \* _dispatch of each event mux, in registration order
    mx_queue,       \* the batches each plain subscriber received
    mx_stack,       \* the dispatch() calls in progress, innermost first
    mx_log,         \* every sub.dispatch(elements) call made so far
    mx_emits,       \* every dispatch() call made from outside a mux
    rd_body,        \* the text bytes of the response the daemon sends
    rd_rc,          \* the return code byte of that response
    rd_cur,         \* cur_out of the receive loop
    rd_pc,          \* recv while the loop runs, then done
    rd_recvs,       \* how many sock_recv calls returned
    rd_result,      \* the text and return code taken from cur_out
    sr_daemons,     \* self._configs.daemons, in order
    sr_rtrcfg,      \* the daemons that have a configuration (keys of rtrcfg)
    sr_build,       \* self.frr.daemons
    sr_pc,          \* where start_run is
    sr_i,           \* daemons of the loop already handled
    sr_pids,        \* self.pids
    sr_log,         \* start_daemon calls, their returns and the config loads
    sr_exc,         \* the exception start_run ended with
    ls_pc,          \* where LinuxNamespace.start is
    ls_proc,        \* /proc: the parent pid of every process there is
    ls_unshare,     \* the pid and state of the process Popen started
    ls_inner,       \* the pid and state of the process unshare forks
    ls_pipe,        \* bytes in the pipe from the namespace's stdout
    ls_got,         \* what stdout.read(1) returned
    ls_pid,         \* self.pid
    ls_exc,         \* the exception start ended with
    sc_table,       \* the descriptor table: key of every open descriptor
    sc_init,        \* the descriptor table when FDState() was called
    sc_fd,          \* fd of the loop of FDState.__init__
    sc_stop,        \* stop of that loop
    sc_self,        \* the FDState dict being filled
    sc_pc           \* scan while the loop runs, then done

tlvars == <<history, dispatchers, iters, arrivals, nempty>>

vvars == <<v_pc, v_input, cmds, cmd, sock, sends, cur_out, output, emitted,
           retcode, v_pid, v_result, v_exc>>

envvars == <<sockPath, pathTooLong, daemonPid, inflight, peerClosed, respLen,
             daemonBytes, respMax>>

rvars == <<pids, procs, signals>>

sdvars == <<sd_pc, sd_daemon, defer_config, cmdline, launched, retry,
            attempts, naps, sd_exc>>

stvars == <<st_pc, st_daemon, st_pid, st_i, st_exc, firstKill, sigsBefore,
            polls, ncalls>>

gvars == <<believed, orphans>>

lcvars == <<rs_pc, rs_daemon, ep_pc, ep_items, nops>>

dsvars == <<configs, frr_daemons, health, failed, queried, ds_pc, ds_i, ds_exc>>

tkvars == <<clock, started_ts, tk_n, tk_pc, tk_delay, tk_maxwait, tk_now,
            nexttick, tk_deadline, tk_ticks, tk_tries, tk_prev>>

fdvars == <<fdtable, snaps, tables, fd_ops>>

axvars == <<ax_fns, ax_list, ax_reg, ax_stack, ax_pc, ax_i, ax_ran, ax_warn,
            ctx_exits, ctx_gone, ax_runs, ctx_raised>>

netvars == <<topo, n_pc, n_i, n_log, n_bridges,
             n_scapys, n_atexit, skipall_node, n_exc, n_items>>

nsvars == <<cur_ns, ns_proc, ns_stack, ns_after, ns_exc, ns_last>>

ctvars == <<ct_pc, ct_out, ct_zombies, ct_sigchld,
            ct_fds, ct_stdin, ct_children, p_pc, p_ends>>

cnvars == <<cn_tasks, cn_conns>>

lpvars == <<lp_tasks, lp_holder>>

mevars == <<me_heap, me_given, me_pre, me_op>>

mxvars == <<mx_hist, mx_disp, mx_queue, mx_stack, mx_log, mx_emits>>

rdvars == <<rd_body, rd_rc, rd_cur, rd_pc, rd_recvs, rd_result>>

srvars == <<sr_daemons, sr_rtrcfg, sr_build, sr_pc,
            sr_i, sr_pids, sr_log, sr_exc>>

lsvars == <<ls_pc, ls_proc, ls_unshare, ls_inner,
            ls_pipe, ls_got, ls_pid, ls_exc>>

scvars == <<sc_table, sc_init, sc_fd, sc_stop, sc_self, sc_pc>>

\* the variables of the test harness around the router
hvars == <<dsvars, tkvars, fdvars, axvars,
          netvars,
          nsvars,
          ctvars,
          cnvars,
          lpvars,
          mevars,
          mxvars,
          rdvars,
          srvars,
          lsvars,
          scvars>>

vars == <<tlvars, vvars, envvars, rvars, sdvars, stvars, gvars, lcvars, hvars>>

\* what the actions of one subsystem leave alone
notTimeline == <<vvars, envvars, rvars, sdvars, stvars, gvars, lcvars, hvars>>
notVtysh == <<tlvars, rvars, sdvars, stvars, gvars, lcvars, hvars>>
notStop == <<tlvars, vvars, envvars, sdvars, lcvars, hvars>>
notStart == <<tlvars, stvars, lcvars, hvars>>
notDoStart == <<tlvars, vvars, envvars, rvars, sdvars, stvars, gvars, lcvars,
                tkvars, fdvars, axvars,
        netvars,
        nsvars,
        ctvars,
        cnvars,
        lpvars,
        mevars,
        mxvars,
        rdvars,
        srvars,
        lsvars,
        scvars>>
notTicks == <<tlvars, vvars, envvars, rvars, sdvars, stvars, gvars, lcvars,
              dsvars, fdvars, axvars,
        netvars,
        nsvars,
        ctvars,
        cnvars,
        lpvars,
        mevars,
        mxvars,
        rdvars,
        srvars,
        lsvars,
        scvars>>
notLeaks == <<tlvars, vvars, envvars, rvars, sdvars, stvars, gvars, lcvars,
              dsvars, tkvars, axvars,
        netvars,
        nsvars,
        ctvars,
        cnvars,
        lpvars,
        mevars,
        mxvars,
        rdvars,
        srvars,
        lsvars,
        scvars>>
notAtexit == <<tlvars, vvars, envvars, rvars, sdvars, stvars, gvars, lcvars,
               dsvars, tkvars, fdvars,
        netvars,
        nsvars,
        ctvars,
        cnvars,
        lpvars,
        mevars,
        mxvars,
        rdvars,
        srvars,
        lsvars,
        scvars>>
notNet == <<tlvars, vvars, envvars, rvars, sdvars, stvars, gvars, lcvars,
        dsvars, tkvars, fdvars, axvars,
        nsvars,
        ctvars,
        cnvars,
        lpvars,
        mevars,
        mxvars,
        rdvars,
        srvars,
        lsvars,
        scvars>>
notNs == <<tlvars, vvars, envvars, rvars, sdvars, stvars, gvars, lcvars,
        dsvars, tkvars, fdvars, axvars, netvars,
        ctvars,
        cnvars,
        lpvars,
        mevars,
        mxvars,
        rdvars,
        srvars,
        lsvars,
        scvars>>
notCaretaker == <<tlvars, vvars, envvars, rvars, sdvars, stvars, gvars, lcvars,
        dsvars, tkvars, fdvars, axvars, netvars, nsvars,
        cnvars,
        lpvars,
        mevars,
        mxvars,
        rdvars,
        srvars,
        lsvars,
        scvars>>
notConn == <<tlvars, vvars, envvars, rvars, sdvars, stvars, gvars, lcvars,
        dsvars, tkvars, fdvars, axvars, netvars, nsvars, ctvars,
        lpvars,
        mevars,
        mxvars,
        rdvars,
        srvars,
        lsvars,
        scvars>>
notLoop == <<tlvars, vvars, envvars, rvars, sdvars, stvars, gvars, lcvars,
        dsvars, tkvars, fdvars, axvars, netvars, nsvars, ctvars, cnvars,
        mevars,
        mxvars,
        rdvars,
        srvars,
        lsvars,
        scvars>>
notEnv == <<tlvars, vvars, envvars, rvars, sdvars, stvars, gvars, lcvars,
        dsvars, tkvars, fdvars, axvars, netvars, nsvars, ctvars, cnvars, lpvars,
        mxvars,
        rdvars,
        srvars,
        lsvars,
        scvars>>
notMux == <<tlvars, vvars, envvars, rvars, sdvars, stvars, gvars, lcvars,
        dsvars, tkvars, fdvars, axvars, netvars, nsvars, ctvars, cnvars, lpvars, mevars,
        rdvars,
        srvars,
        lsvars,
        scvars>>
notRead == <<tlvars, vvars, envvars, rvars, sdvars, stvars, gvars, lcvars,
        dsvars, tkvars, fdvars, axvars, netvars, nsvars, ctvars, cnvars, lpvars, mevars, mxvars,
        srvars,
        lsvars,
        scvars>>
notRun == <<tlvars, vvars, envvars, rvars, sdvars, stvars, gvars, lcvars,
        dsvars, tkvars, fdvars, axvars, netvars, nsvars, ctvars, cnvars, lpvars, mevars, mxvars, rdvars,
        lsvars,
        scvars>>
notNsStart == <<tlvars, vvars, envvars, rvars, sdvars, stvars, gvars, lcvars,
        dsvars, tkvars, fdvars, axvars, netvars, nsvars, ctvars, cnvars, lpvars, mevars, mxvars, rdvars, srvars,
        scvars>>
notScan == <<tlvars, vvars, envvars, rvars, sdvars, stvars, gvars, lcvars,
        dsvars, tkvars, fdvars, axvars, netvars, nsvars, ctvars, cnvars, lpvars, mevars, mxvars, rdvars, srvars, lsvars>>

(***************************************************************************)
(* Idle values of the subsystems a specification does not exercise.        *)
(***************************************************************************)
NoExc == ""

\* no exception
NoException == [type |-> "", daemon |-> "", router |-> "", cmdline |-> <<>>]

StartParked ==
    /\ sd_pc = "idle"
    /\ sd_daemon = ""
    /\ defer_config = FALSE
    /\ cmdline = <<>>
    /\ launched = <<>>
    /\ retry = 0
    /\ attempts = 0
    /\ naps = 0
    /\ sd_exc = NoException

StopParked ==
    /\ st_pc = "idle"
    /\ st_daemon = ""
    /\ st_pid = 0
    /\ st_i = 0
    /\ st_exc = NoException
    /\ firstKill = "none"
    /\ sigsBefore = 0
    /\ polls = <<>>
    /\ ncalls = 0

RouterParked ==
    /\ pids = <<>>
    /\ procs = <<>>
    /\ signals = <<>>
    /\ believed = {}
    /\ orphans = <<>>

LifecycleParked ==
    /\ rs_pc = "idle"
    /\ rs_daemon = ""
    /\ ep_pc = "idle"
    /\ ep_items = <<>>
    /\ nops = 0

DoStartParked ==
    /\ configs = <<>>
    /\ frr_daemons = {}
    /\ health = <<>>
    /\ failed = <<>>
    /\ queried = {}
    /\ ds_pc = "idle"
    /\ ds_i = 0
    /\ ds_exc = [type |-> "", daemons |-> {}, routers |-> {}]

\* no polling loop has run
NoPoll == [pc |-> "idle", maxwait |-> None, ticks |-> <<>>, tries |-> 0]

TicksParked ==
    /\ clock = 0
    /\ started_ts = 0
    /\ tk_n = 0
    /\ tk_pc = "idle"
    /\ tk_delay = None
    /\ tk_maxwait = None
    /\ tk_now = 0
    /\ nexttick = None
    /\ tk_deadline = None
    /\ tk_ticks = <<>>
    /\ tk_tries = 0
    /\ tk_prev = NoPoll

LeaksParked ==
    /\ fdtable = <<>>
    /\ snaps = <<>>
    /\ tables = <<>>
    /\ fd_ops = {}

AtexitParked ==
    /\ ax_fns = <<>>
    /\ ax_list = <<>>
    /\ ax_reg = <<>>
    /\ ax_stack = <<>>
    /\ ax_pc = "idle"
    /\ ax_i = 0
    /\ ax_ran = <<>>
    /\ ax_warn = <<>>
    /\ ctx_exits = <<>>
    /\ ctx_gone = {}
    /\ ax_runs = 0
    /\ ctx_raised = {}

NetParked ==
    /\ topo = [links |-> <<>>, lans |-> <<>>]
    /\ n_pc = "idle"
    /\ n_i = 0
    /\ n_log = <<>>
    /\ n_bridges = <<>>
    /\ n_scapys = {}
    /\ n_atexit = <<>>
    /\ skipall_node = "none"
    /\ n_exc = ""
    /\ n_items = 0

NsParked ==
    /\ cur_ns = [net |-> "orig", mnt |-> "orig"]
    /\ ns_proc = {}
    /\ ns_stack = <<>>
    /\ ns_after = None
    /\ ns_exc = NoExc
    /\ ns_last = None

CaretakerParked ==
    /\ ct_pc = "none"
    /\ ct_out = <<>>
    /\ ct_zombies = 0
    /\ ct_sigchld = FALSE
    /\ ct_fds = {}
    /\ ct_stdin = "open"
    /\ ct_children = 0
    /\ p_pc = "none"
    /\ p_ends = 0

ConnParked ==
    /\ cn_tasks = <<>>
    /\ cn_conns = <<>>

LoopParked ==
    /\ lp_tasks = <<>>
    /\ lp_holder = 0

EnvParked ==
    /\ me_heap = <<>>
    /\ me_given = FALSE
    /\ me_pre = <<>>
    /\ me_op = "none"

MuxParked ==
    /\ mx_hist = <<>>
    /\ mx_disp = <<>>
    /\ mx_queue = <<>>
    /\ mx_stack = <<>>
    /\ mx_log = <<>>
    /\ mx_emits = <<>>

ReadParked ==
    /\ rd_body = <<>>
    /\ rd_rc = 0
    /\ rd_cur = <<>>
    /\ rd_pc = "idle"
    /\ rd_recvs = 0
    /\ rd_result = <<>>

RunParked ==
    /\ sr_daemons = <<>>
    /\ sr_rtrcfg = {}
    /\ sr_build = {}
    /\ sr_pc = "idle"
    /\ sr_i = 0
    /\ sr_pids = <<>>
    /\ sr_log = <<>>
    /\ sr_exc = NoExc

NsStartParked ==
    /\ ls_pc = "idle"
    /\ ls_proc = <<>>
    /\ ls_unshare = [pid |-> 0, state |-> "none"]
    /\ ls_inner = [pid |-> 0, state |-> "none"]
    /\ ls_pipe = 0
    /\ ls_got = "none"
    /\ ls_pid = None
    /\ ls_exc = NoExc

ScanParked ==
    /\ sc_table = <<>>
    /\ sc_init = <<>>
    /\ sc_fd = 0
    /\ sc_stop = 0
    /\ sc_self = <<>>
    /\ sc_pc = "idle"

HarnessParked == DoStartParked /\ TicksParked /\ LeaksParked /\ AtexitParked /\ NetParked /\ NsParked /\ CaretakerParked /\ ConnParked /\ LoopParked /\ EnvParked /\ MuxParked /\ ReadParked /\ RunParked /\ NsStartParked /\ ScanParked

CallParked ==
    /\ v_pc = "idle"
    /\ v_input = [isStr |-> TRUE, text |-> <<>>, list |-> <<>>]
    /\ cmds = <<>>
    /\ cmd = <<>>
    /\ sock = "none"
    /\ sends = <<>>
    /\ cur_out = <<>>
    /\ output = <<>>
    /\ emitted = <<>>
    /\ retcode = 0
    /\ v_pid = 0
    /\ v_result = None
    /\ v_exc = NoExc

SocketParked ==
    /\ sockPath = "missing"
    /\ pathTooLong = FALSE
    /\ daemonPid = 0
    /\ inflight = <<>>
    /\ peerClosed = FALSE
    /\ respLen = 0
    /\ daemonBytes = {}
    /\ respMax = 0

VtyshParked == CallParked /\ SocketParked

(***************************************************************************)
(* Generic helpers.                                                        *)
(***************************************************************************)
RECURSIVE Flatten(_)
Flatten(ss) == IF ss = <<>> THEN <<>> ELSE Head(ss) \o Flatten(Tail(ss))

\* Python's seq[i:] for a 0-based index 0 <= i <= len(seq)
SliceFrom(seq, i) == SubSeq(seq, i + 1, Len(seq))

\* all sequences over S of length exactly n
SeqsOfLen(S, n) == [1..n -> S]

(***************************************************************************)
(* timeline.py: TimedElement ordering.                                     *)
(***************************************************************************)
Iters == 1..NumIters
Keys == (1..MaxTime) \X (0..MaxSeq)
Cutoffs == 1..(MaxTime + 1)

\* tuple comparison of Python: (a0, a1) < (b0, b1)
TupleLt(a, b) == a[1] < b[1] \/ (a[1] = b[1] /\ a[2] < b[2])

\* TimedElement.__lt__
ElemLt(x, y) == TupleLt(x.ts, y.ts)

\* _Dummy(ts): a TimedElement whose ts is (ts, 0)
Dummy(t) == [ts |-> <<t, 0>>, id |-> 0]

\* bisect.bisect_right(a, x): 0-based insertion point after equal elements
RECURSIVE BisectRightLoop(_, _, _, _)
BisectRightLoop(a, x, lo, hi) ==
    IF lo < hi
    THEN LET mid == (lo + hi) \div 2 IN
         IF ElemLt(x, a[mid + 1])
         THEN BisectRightLoop(a, x, lo, mid)
         ELSE BisectRightLoop(a, x, mid + 1, hi)
    ELSE lo

\* bisect.bisect_left(a, x): 0-based insertion point before equal elements
RECURSIVE BisectLeftLoop(_, _, _, _)
BisectLeftLoop(a, x, lo, hi) ==
    IF lo < hi
    THEN LET mid == (lo + hi) \div 2 IN
         IF ElemLt(a[mid + 1], x)
         THEN BisectLeftLoop(a, x, mid + 1, hi)
         ELSE BisectLeftLoop(a, x, lo, mid)
    ELSE lo

BisectLeft(a, x) == BisectLeftLoop(a, x, 0, Len(a))

\* list.insert(i, x) for a 0-based index i
ListInsert(a, i, x) == SubSeq(a, 1, i) \o <<x>> \o SubSeq(a, i + 1, Len(a))

\* a plausible slip: insort_left, which puts x before the elements equal to it
InsortLeft(a, x) == ListInsert(a, BisectLeftLoop(a, x, 0, Len(a)), x)

\* bisect.insort(a, x), which is insort_right
Insort(a, x) == ListInsert(a, BisectRightLoop(a, x, 0, Len(a)), x)

\* "for element in elements: bisect.insort(self.history, element)"
RECURSIVE InsortAll(_, _)
InsortAll(a, elements) ==
    IF elements = <<>> THEN a
    ELSE InsortAll(Insort(a, Head(elements)), Tail(elements))

(***************************************************************************)
(* timeline.py: EventIter.                                                 *)
(***************************************************************************)
\* state, backfill (_backfill), queue (_queue) and pending (_pending) are the
\* object; seen lists what __anext__ returned so far, and histAtAdd,
\* arrivedAtAdd, arrivedAtRemove record the history and the number of
\* dispatched elements when dispatch_add / dispatch_remove ran
NewIter == [state |-> "none", backfill |-> None, queue |-> <<>>,
            pending |-> <<>>, seen |-> <<>>,
            histAtAdd |-> <<>>, arrivedAtAdd |-> 0, arrivedAtRemove |-> 0]

\* EventIter.dispatch: self._queue.put_nowait(elements)
IterDispatch(it, elements) == [it EXCEPT !.queue = Append(@, elements)]

\* "for sub in self._dispatch: sub.dispatch(elements)"
RECURSIVE DispatchToAll(_, _, _)
DispatchToAll(its, subs, elements) ==
    IF subs = <<>> THEN its
    ELSE DispatchToAll(
             [its EXCEPT ![Head(subs)] = IterDispatch(@, elements)],
             Tail(subs), elements)

\* a plausible slip: bisect_right, which skips the elements equal to the cutoff
BackfillSliceRight(hist, backfill) ==
    SliceFrom(hist, BisectRightLoop(hist, Dummy(backfill), 0, Len(hist)))

\* "idx = bisect.bisect_left(self.history, _Dummy(backfill))" and
\* "self.history[idx:]"
BackfillSlice(hist, backfill) ==
    SliceFrom(hist, BisectLeft(hist, Dummy(backfill)))

\* the queue of an EventIter after the leading empty batches were taken
RECURSIVE DropEmpty(_)
DropEmpty(q) ==
    IF q # <<>> /\ Head(q) = <<>> THEN DropEmpty(Tail(q)) ELSE q

(***************************************************************************)
(* Python str and bytes operations used by vtysh_async.  A str is a        *)
(* sequence of code points, a bytes object a sequence of 0..255.           *)
(***************************************************************************)
\* the code points c with chr(c).isspace()
Whitespace ==
    (9..13) \cup (28..32) \cup {133, 160, 5760} \cup (8192..8202)
        \cup {8232, 8233, 8239, 8287, 12288}

\* the line boundaries of str.splitlines()
LineBreaks == {10, 11, 12, 13, 28, 29, 30, 133, 8232, 8233}

RECURSIVE LStrip(_)
LStrip(t) ==
    IF t # <<>> /\ Head(t) \in Whitespace THEN LStrip(Tail(t)) ELSE t

RECURSIVE RStrip(_)
RStrip(t) ==
    IF t # <<>> /\ t[Len(t)] \in Whitespace
    THEN RStrip(SubSeq(t, 1, Len(t) - 1))
    ELSE t

\* str.strip()
Strip(t) == RStrip(LStrip(t))

\* str.splitlines(): cur is the line read so far; "\r\n" is one boundary
RECURSIVE SplitLinesFrom(_, _)
SplitLinesFrom(t, cur) ==
    IF t = <<>> THEN (IF cur = <<>> THEN <<>> ELSE <<cur>>)
    ELSE IF Head(t) = 13 /\ Len(t) >= 2 /\ t[2] = 10
    THEN <<cur>> \o SplitLinesFrom(SubSeq(t, 3, Len(t)), <<>>)
    ELSE IF Head(t) \in LineBreaks
    THEN <<cur>> \o SplitLinesFrom(Tail(t), <<>>)
    ELSE SplitLinesFrom(Tail(t), Append(cur, Head(t)))

SplitLines(t) == SplitLinesFrom(t, <<>>)

\* [c.strip() for c in cmds.splitlines() if c.strip() != ""]
StrippedLines(t) ==
    LET lines == SplitLines(t)
        stripped == [k \in 1..Len(lines) |-> Strip(lines[k])]
        NotBlank(c) == c # <<>>
    IN  SelectSeq(stripped, NotBlank)

\* chr(c).encode("UTF-8")
EncodeChar(c) ==
    IF c < 128 THEN <<c>>
    ELSE IF c < 2048 THEN <<192 + (c \div 64), 128 + (c % 64)>>
    ELSE IF c < 65536
    THEN <<224 + (c \div 4096), 128 + ((c \div 64) % 64), 128 + (c % 64)>>
    ELSE <<240 + (c \div 262144), 128 + ((c \div 4096) % 64),
           128 + ((c \div 64) % 64), 128 + (c % 64)>>

\* str.encode("UTF-8")
Encode(t) == Flatten([k \in 1..Len(t) |-> EncodeChar(t[k])])

IsCont(b) == b >= 128 /\ b <= 191

\* bytes.decode("UTF-8"): ok is FALSE where Python raises UnicodeDecodeError
RECURSIVE DecodeFrom(_, _)
DecodeFrom(b, acc) ==
    IF b = <<>> THEN [ok |-> TRUE, str |-> acc]
    ELSE LET n == Len(b) IN
         IF b[1] < 128
         THEN DecodeFrom(Tail(b), Append(acc, b[1]))
         ELSE IF b[1] >= 194 /\ b[1] <= 223 /\ n >= 2 /\ IsCont(b[2])
         THEN DecodeFrom(SubSeq(b, 3, n),
                         Append(acc, (b[1] - 192) * 64 + (b[2] - 128)))
         ELSE IF /\ b[1] >= 224 /\ b[1] <= 239 /\ n >= 3
                 /\ IsCont(b[2]) /\ IsCont(b[3])
                 /\ (b[1] = 224 => b[2] >= 160)
                 /\ (b[1] = 237 => b[2] <= 159)
         THEN DecodeFrom(SubSeq(b, 4, n),
                         Append(acc, (b[1] - 224) * 4096 + (b[2] - 128) * 64
                                         + (b[3] - 128)))
         ELSE IF /\ b[1] >= 240 /\ b[1] <= 244 /\ n >= 4
                 /\ IsCont(b[2]) /\ IsCont(b[3]) /\ IsCont(b[4])
                 /\ (b[1] = 240 => b[2] >= 144)
                 /\ (b[1] = 244 => b[2] <= 143)
         THEN DecodeFrom(SubSeq(b, 5, n),
                         Append(acc, (b[1] - 240) * 262144
                                         + (b[2] - 128) * 4096
                                         + (b[3] - 128) * 64 + (b[4] - 128)))
         ELSE [ok |-> FALSE, str |-> <<>>]

Decode(b) == DecodeFrom(b, <<>>)

\* str.replace("\r\n", "\n")
RECURSIVE ReplaceCRLF(_)
ReplaceCRLF(t) ==
    IF t = <<>> THEN <<>>
    ELSE IF Head(t) = 13 /\ Len(t) >= 2 /\ t[2] = 10
    THEN <<10>> \o ReplaceCRLF(SubSeq(t, 3, Len(t)))
    ELSE <<Head(t)>> \o ReplaceCRLF(Tail(t))

\* a slice bound i of Python for a sequence of length n, as an offset 0..n
PyBound(n, i) ==
    IF i < 0 THEN (IF n + i < 0 THEN 0 ELSE n + i)
    ELSE (IF i > n THEN n ELSE i)

\* seq[i:j] of Python
PySlice(seq, i, j) ==
    SubSeq(seq, PyBound(Len(seq), i) + 1, PyBound(Len(seq), j))

\* the first n elements of seq, or all of it
Take(seq, n) == SubSeq(seq, 1, IF Len(seq) < n THEN Len(seq) ELSE n)

(***************************************************************************)
(* frr/core.py: vtysh_async, as called through vtysh_polled.               *)
(***************************************************************************)
\* a plausible slip: the last three bytes are compared, "cur_out[-3:]"
TerminatedLast3(cur) == PySlice(cur, -3, Len(cur)) = <<0, 0, 0>>

\* "cur_out[-4:-1] != b'\0\0\0'" is false: the terminator has been read
Terminated(cur) == PySlice(cur, -4, -1) = <<0, 0, 0>>

\* "retcode = cur_out[-1]"
RetcodeOf(cur) == cur[Len(cur)]

\* a plausible slip: only the three NUL bytes are cut off
RawOfShort(cur) == PySlice(cur, 0, -3)

\* "raw = cur_out[:-4]"
RawOf(cur) == PySlice(cur, 0, -4)

\* a plausible slip: the last command of the batch only
LastFlagEndOnly(rc, rest) == rest = <<>>

\* "last = retcode != 0 or not cmds"
LastFlag(rc, rest) == rc # 0 \/ rest = <<>>

\* a plausible slip: the batch goes on after a non-zero return code
AfterResponseNoBreak(rc) == "loop"

\* "if retcode: break"
AfterResponse(rc) == IF rc # 0 THEN "return" ELSE "loop"

\* TimedVtysh(time.time(), self.name, daemon, cmd, retcode, text, last)
TimedVtysh(c, rc, text, last) ==
    [cmd |-> c, retcode |-> rc, text |-> text, last |-> last]

\* the commands of the batch, as lines 831-834 make them
BatchOf(input) ==
    IF input.isStr THEN StrippedLines(input.text) ELSE input.list

\* a call vtysh_polled(daemon, cmds) for a daemon other than "vtysh" begins:
\* vtysh_async up to the socket() call
VtyshBegin(input) ==
    /\ v_input' = input
    /\ cmds' = BatchOf(input)
    /\ cmd' = <<>>
    /\ output' = <<>>
    /\ emitted' = <<>>
    /\ retcode' = 0
    /\ sock' = "open"
    /\ sends' = <<>>
    /\ cur_out' = <<>>
    /\ v_pid' = 0
    /\ v_result' = None
    /\ v_exc' = NoExc
    /\ v_pc' = "connect"
    /\ inflight' = <<>>
    /\ peerClosed' = FALSE
    /\ respLen' = 0

\* the call ends with an exception; the with block closes the socket
VRaise(exc) ==
    /\ v_exc' = exc
    /\ sock' = "closed"
    /\ v_pc' = "raised"

\* "await aioloop.sock_connect(sock, fn)" and the peer credentials
VConnect ==
    /\ v_pc = "connect"
    /\ IF pathTooLong THEN VRaise("FRRSetupError") /\ UNCHANGED v_pid
       ELSE IF sockPath = "missing"
       THEN VRaise("FileNotFoundError") /\ UNCHANGED v_pid
       ELSE IF sockPath = "refusing"
       THEN VRaise("ConnectionRefusedError") /\ UNCHANGED v_pid
       ELSE /\ v_pid' = daemonPid
            /\ v_pc' = "loop"
            /\ UNCHANGED <<v_exc, sock>>
    /\ UNCHANGED <<v_input, cmds, cmd, sends, cur_out, output, emitted,
                   retcode, v_result, envvars, notVtysh>>

\* "cmd = cmds.pop(0)", "await aioloop.sock_sendall(...)", "cur_out = b''"
VSend ==
    /\ v_pc = "loop"
    /\ cmds # <<>>
    /\ IF peerClosed
       THEN /\ VRaise("BrokenPipeError")
            /\ UNCHANGED <<sends, cur_out, respLen>>
       ELSE /\ sends' = Append(sends, Encode(Head(cmds)) \o <<0>>)
            /\ cur_out' = <<>>
            /\ respLen' = 0
            /\ v_pc' = "recv"
            /\ UNCHANGED <<v_exc, sock>>
    /\ cmd' = Head(cmds)
    /\ cmds' = Tail(cmds)
    /\ UNCHANGED <<v_input, output, emitted, retcode, v_pid, v_result,
                   sockPath, pathTooLong, daemonPid, inflight, peerClosed,
                   daemonBytes, respMax, notVtysh>>

\* one "cur_out += await aioloop.sock_recv(sock, 4096)" that returns (with
\* the bytes in flight, or with b"" at end of stream), and, when that ends
\* the while loop, the rest of the loop body up to "if retcode: break"
VRecv ==
    /\ v_pc = "recv"
    /\ inflight # <<>> \/ peerClosed
    /\ LET chunk == Take(inflight, RecvSize)
           cur == cur_out \o chunk
           rc == RetcodeOf(cur)
           dec == Decode(RawOf(cur))
           last == LastFlag(rc, cmds)
       IN  /\ cur_out' = cur
           /\ inflight' = SubSeq(inflight, Len(chunk) + 1, Len(inflight))
           /\ IF ~Terminated(cur)
              THEN UNCHANGED <<v_pc, retcode, output, emitted, v_exc, sock>>
              ELSE IF ~dec.ok
              THEN /\ retcode' = rc
                   /\ VRaise("UnicodeDecodeError")
                   /\ UNCHANGED <<output, emitted>>
              ELSE LET event == TimedVtysh(cmd, rc, ReplaceCRLF(dec.str),
                                           last)
                   IN  /\ retcode' = rc
                       /\ output' = Append(output, event)
                       /\ emitted' = Append(emitted, event)
                       /\ v_pc' = AfterResponse(rc)
                       /\ UNCHANGED <<v_exc, sock>>
    /\ UNCHANGED <<v_input, cmds, cmd, sends, v_pid, v_result, sockPath,
                   pathTooLong, daemonPid, peerClosed, respLen, daemonBytes,
                   respMax, notVtysh>>

\* "return (pid, output, retcode)", after the break or when cmds is empty
VReturn ==
    /\ v_pc = "return" \/ (v_pc = "loop" /\ cmds = <<>>)
    /\ v_result' = Some(<<v_pid, output, retcode>>)
    /\ sock' = "closed"
    /\ v_pc' = "done"
    /\ UNCHANGED <<v_input, cmds, cmd, sends, cur_out, output, emitted,
                   retcode, v_pid, v_exc, envvars, notVtysh>>

\* asyncio.wait_for(..., timeout) of vtysh_polled expires while the call is
\* suspended in sock_recv with nothing to read
VTimeout ==
    /\ v_pc = "recv"
    /\ inflight = <<>>
    /\ ~peerClosed
    /\ VRaise("TimeoutError")
    /\ UNCHANGED <<v_input, cmds, cmd, sends, cur_out, output, emitted,
                   retcode, v_pid, v_result, envvars, notVtysh>>

\* the daemon writes one byte to the connection
DaemonWrite ==
    /\ sock = "open"
    /\ ~peerClosed
    /\ sends # <<>>
    /\ respLen < respMax
    /\ \E b \in daemonBytes : inflight' = Append(inflight, b)
    /\ respLen' = respLen + 1
    /\ UNCHANGED <<vvars, sockPath, pathTooLong, daemonPid, peerClosed,
                   daemonBytes, respMax, notVtysh>>

\* the daemon closes its end of the connection (or dies)
DaemonClose ==
    /\ sock = "open"
    /\ v_pc \in {"loop", "recv"}
    /\ ~peerClosed
    /\ peerClosed' = TRUE
    /\ UNCHANGED <<vvars, sockPath, pathTooLong, daemonPid, inflight, respLen,
                   daemonBytes, respMax, notVtysh>>

(***************************************************************************)
(* Timeline actions.                                                       *)
(***************************************************************************)
\* the elements of one dispatch() call: fresh elements with the given keys
MkBatch(keys) ==
    [k \in 1..Len(keys) |-> [ts |-> keys[k], id |-> Len(arrivals) + k]]

\* EventMux.dispatch(elements)
Dispatch(elements) ==
    /\ iters' = DispatchToAll(iters, dispatchers, elements)
    /\ history' = InsortAll(history, elements)
    /\ arrivals' = arrivals \o elements
    /\ UNCHANGED dispatchers

\* a producer dispatches a non-empty batch
Produce ==
    \E n \in 1..MaxBatch :
        /\ Len(arrivals) + n <= MaxEvents
        /\ \E keys \in SeqsOfLen(Keys, n) : Dispatch(MkBatch(keys))
        /\ UNCHANGED <<nempty, notTimeline>>

\* a producer dispatches an empty list
ProduceEmpty ==
    /\ nempty < MaxEmpty
    /\ nempty' = nempty + 1
    /\ Dispatch(<<>>)
    /\ UNCHANGED notTimeline

\* EventMux.observe(backfill): EventIter.__init__
Observe(i) ==
    /\ iters[i].state = "none"
    /\ \E b \in {None} \cup {Some(c) : c \in Cutoffs} :
           iters' = [iters EXCEPT ![i] = [NewIter EXCEPT !.state = "created",
                                                         !.backfill = b]]
    /\ UNCHANGED <<history, dispatchers, arrivals, nempty, notTimeline>>

\* EventMux.dispatch_add(receiver, backfill), for the EventIter i
DispatchAdd(i, backfill) ==
    /\ iters' = [iters EXCEPT ![i] =
           [(IF backfill # None
             THEN IterDispatch(@, BackfillSlice(history, backfill[1]))
             ELSE @)
            EXCEPT !.state = "entered",
                   !.histAtAdd = history,
                   !.arrivedAtAdd = Len(arrivals)]]
    /\ dispatchers' = Append(dispatchers, i)

\* EventIter.__enter__
Enter(i) ==
    /\ iters[i].state = "created"
    /\ DispatchAdd(i, iters[i].backfill)
    /\ UNCHANGED <<history, arrivals, nempty, notTimeline>>

\* list.remove(x): drop the first occurrence
RECURSIVE ListRemove(_, _)
ListRemove(l, x) ==
    IF l = <<>> THEN <<>>
    ELSE IF Head(l) = x THEN Tail(l)
    ELSE <<Head(l)>> \o ListRemove(Tail(l), x)

\* EventIter.__exit__: EventMux.dispatch_remove(self)
Exit(i) ==
    /\ iters[i].state = "entered"
    /\ dispatchers' = ListRemove(dispatchers, i)
    /\ iters' = [iters EXCEPT ![i].state = "exited",
                              ![i].arrivedAtRemove = Len(arrivals)]
    /\ UNCHANGED <<history, arrivals, nempty, notTimeline>>

\* EventIter.__anext__, from the call to the return of one element; the call
\* stays suspended in "await self._queue.get()" while no element is queued
Anext(i) ==
    /\ iters[i].state \in {"entered", "exited"}
    /\ LET it == iters[i]
           q == IF it.pending = <<>> THEN DropEmpty(it.queue) ELSE it.queue
           pend == IF it.pending = <<>>
                   THEN (IF q = <<>> THEN <<>> ELSE Head(q))
                   ELSE it.pending
       IN  /\ pend # <<>>
           /\ iters' = [iters EXCEPT ![i] =
                  [@ EXCEPT !.queue = IF it.pending = <<>> THEN Tail(q) ELSE q,
                            !.pending = Tail(pend),
                            !.seen = Append(@, Head(pend))]]
    /\ UNCHANGED <<history, dispatchers, arrivals, nempty, notTimeline>>

\* EventMux.__init__, with no EventIter made yet
MuxInit ==
    /\ history = <<>>
    /\ dispatchers = <<>>
    /\ iters = [i \in Iters |-> NewIter]
    /\ arrivals = <<>>
    /\ nempty = 0

InitTimeline ==
    /\ MuxInit /\ VtyshParked /\ RouterParked /\ StartParked /\ StopParked
    /\ LifecycleParked
    /\ HarnessParked

NextTimeline ==
    \/ Produce
    \/ ProduceEmpty
    \/ \E i \in Iters : Observe(i)
    \/ \E i \in Iters : Enter(i)
    \/ \E i \in Iters : Exit(i)
    \/ \E i \in Iters : Anext(i)

SpecTimeline == InitTimeline /\ [][NextTimeline]_vars

(***************************************************************************)
(* The vtysh specification: one vtysh_polled call against a daemon.        *)
(***************************************************************************)
\* characters of the commands: space, newline, "a" and e-acute
CmdChars == {32, 10, 97, 233}

Texts(n) == UNION {SeqsOfLen(CmdChars, k) : k \in 0..n}

\* the commands of a list: "", "a", " a", "a ", " a ", e-acute, "a\na"
ListTexts ==
    {<<>>, <<97>>, <<32, 97>>, <<97, 32>>, <<32, 97, 32>>, <<233>>,
     <<97, 10, 97>>}

StrInput(t) == [isStr |-> TRUE, text |-> t, list |-> <<>>]
ListInput(l) == [isStr |-> FALSE, text |-> <<>>, list |-> l]

\* "show version"
ShowVersion == <<115, 104, 111, 119, 32, 118, 101, 114, 115, 105, 111, 110>>

\* byte values of a daemon that answers with text: NUL, "\n", "\r" and the
\* two bytes of e-acute
TextBytes == {0, 10, 13, 195, 169}

\* byte values of a daemon that answers with return codes 0 and 1 only
CodeBytes == {0, 1}

\* the batches given to the call, with the daemon that answers them: any
\* command string or list against a daemon answering with return codes, and
\* "show version" against a daemon answering with text
CallInputs ==
    {<<StrInput(t), CodeBytes, MaxShortResp>> : t \in Texts(MaxStrLen)}
        \cup {<<ListInput(l), CodeBytes, MaxShortResp>> :
                  l \in UNION {SeqsOfLen(ListTexts, n) : n \in 0..MaxCmds}}
        \cup {<<StrInput(ShowVersion), TextBytes, MaxResp>>}

InitVtysh ==
    /\ MuxInit
    /\ RouterParked
    /\ LifecycleParked
    /\ HarnessParked
    /\ StartParked
    /\ StopParked
    /\ \E c \in CallInputs :
           /\ v_input = c[1]
           /\ daemonBytes = c[2]
           /\ respMax = c[3]
    /\ sockPath \in {"missing", "refusing", "listening"}
    /\ pathTooLong \in BOOLEAN
    /\ daemonPid = 101
    /\ v_pc = "call"
    /\ cmds = <<>>
    /\ cmd = <<>>
    /\ sock = "none"
    /\ sends = <<>>
    /\ cur_out = <<>>
    /\ output = <<>>
    /\ emitted = <<>>
    /\ retcode = 0
    /\ v_pid = 0
    /\ v_result = None
    /\ v_exc = NoExc
    /\ inflight = <<>>
    /\ peerClosed = FALSE
    /\ respLen = 0

\* the caller awaits vtysh_polled(daemon, cmds)
VCall ==
    /\ v_pc = "call"
    /\ VtyshBegin(v_input)
    /\ UNCHANGED <<sockPath, pathTooLong, daemonPid, daemonBytes, respMax,
                   notVtysh>>

NextVtysh ==
    \/ VCall
    \/ VConnect
    \/ VSend
    \/ VRecv
    \/ VReturn
    \/ VTimeout
    \/ DaemonWrite
    \/ DaemonClose

SpecVtysh == InitVtysh /\ [][NextVtysh]_vars

(***************************************************************************)
(* frr/core.py: FRRRouterNS.start_daemon.                                  *)
(***************************************************************************)
\* the daemons of the router, and the router's name
Daemons == {"zebra", "ospfd"}
Router == "r1"

\* the process id a daemon's process gets
PidOf(d) == IF d = "zebra" THEN 101 ELSE 102

\* self._configs.modules.get(daemon, []): a module is its name followed by
\* the parts of its arguments that ":" separates ("snmp:agentx" is
\* <<"snmp", "agentx">>)
Modules(d) == IF d = "zebra" THEN << <<"snmp", "agentx">>, <<"fpm">> >> ELSE <<>>

\* the "-M" argument of one module: split(":", 1), then the formatted path
ModArg(mod) ==
    <<"-M", "frrpath", "/", <<"modmap", Head(mod)>>>>
        \o (IF Len(mod) > 1 THEN <<":">> \o Tail(mod) ELSE <<>>)

\* the argument list start_daemon builds; an argument is the tuple of the
\* pieces it is formatted from
CmdLine(d) ==
    << <<"frrpath", "/", <<"binmap", d>>>>, <<"-d">> >>
        \o [k \in 1..Len(Modules(d)) |-> ModArg(Modules(d)[k])]
        \o << <<"--log">>, <<"monitor:", <<"logfd", d>>>>, <<"--log-level">>,
              <<"debug">>, <<"--vty_socket">>, <<"rundir">>, <<"-i">>,
              <<"rundir", "/", d, ".pid">> >>

\* shlex.join(cmdline): every argument shell-quoted, in order
ShlexJoin(args) == [k \in 1..Len(args) |-> <<"quote", args[k]>>]

TopotatoDaemonStartFail(d, line) ==
    [type |-> "TopotatoDaemonStartFail", daemon |-> d, router |-> Router,
     cmdline |-> line]

\* an exception that start_daemon lets through as it is
Propagated(type) ==
    [type |-> type, daemon |-> "", router |-> "", cmdline |-> <<>>]

\* "enable\nconfigure\ndebug memstats-at-exit\nend"
Bookkeeping ==
    <<101, 110, 97, 98, 108, 101, 10, 99, 111, 110, 102, 105, 103, 117,
       114, 101, 10, 100, 101, 98, 117, 103, 32, 109, 101, 109, 115, 116,
       97, 116, 115, 45, 97, 116, 45, 101, 120, 105, 116, 10, 101, 110,
       100>>

\* "for retry in range(30, -1, -1)": the first value of retry
MaxRetry == 30

\* the exceptions of vtysh_polled that start_daemon has except clauses for
Retryable == {"ConnectionRefusedError", "FileNotFoundError"}

\* a plausible slip: the loop gives up one turn early
RetryExhaustedEarly(r) == r <= 1

\* "if retry:" is false
RetryExhausted(r) == r = 0

\* self.pids[daemon] = pid
DictSet(dict, key, value) ==
    [k \in DOMAIN dict \cup {key} |-> IF k = key THEN value ELSE dict[k]]

\* start_daemon up to the for loop: the command line is built and run
SdCall ==
    /\ sd_pc = "call"
    /\ cmdline' = CmdLine(sd_daemon)
    /\ launched' = Append(launched, cmdline')
    /\ \/ /\ procs' = [procs EXCEPT ![sd_daemon] = "running"]
          /\ orphans' = [orphans EXCEPT ![sd_daemon] =
                             IF procs[sd_daemon] = "running" THEN @ + 1 ELSE @]
          /\ retry' = MaxRetry
          /\ sd_pc' = "poll"
          /\ UNCHANGED sd_exc
       \/ \* subprocess.CalledProcessError
          /\ sd_exc' = TopotatoDaemonStartFail(sd_daemon, ShlexJoin(cmdline'))
          /\ sd_pc' = "raised"
          /\ UNCHANGED <<procs, orphans, retry>>
    /\ UNCHANGED <<sd_daemon, defer_config, attempts, naps, pids, signals,
                   believed, vvars, envvars, notStart>>

\* "await self.vtysh_polled(daemon, "enable\n...")" begins
SdPoll ==
    /\ sd_pc = "poll"
    /\ VtyshBegin(StrInput(Bookkeeping))
    /\ attempts' = attempts + 1
    /\ sd_pc' = "wait"
    /\ UNCHANGED <<sd_daemon, defer_config, cmdline, launched, retry, naps,
                   sd_exc, sockPath, pathTooLong, daemonPid, daemonBytes,
                   respMax, rvars, gvars, notStart>>

\* vtysh_polled has returned or raised: break, continue after time.sleep(0.1),
\* the raise of TopotatoDaemonStartFail, or the exception passes through;
\* after the break, "self.pids[daemon] = pid"
SdPolled ==
    /\ sd_pc = "wait"
    /\ v_pc \in {"done", "raised"}
    /\ IF v_pc = "done"
       THEN /\ pids' = DictSet(pids, sd_daemon, v_result[1][1])
            /\ sd_pc' = IF defer_config THEN "done" ELSE "load"
            /\ believed' = IF defer_config THEN believed \cup {sd_daemon}
                            ELSE believed
            /\ UNCHANGED <<retry, naps, sd_exc>>
       ELSE IF v_exc \in Retryable
       THEN IF ~RetryExhausted(retry)
            THEN /\ naps' = naps + 1
                 /\ retry' = retry - 1
                 /\ sd_pc' = "poll"
                 /\ UNCHANGED <<pids, believed, sd_exc>>
            ELSE /\ sd_exc' = TopotatoDaemonStartFail(sd_daemon,
                                                      ShlexJoin(cmdline))
                 /\ sd_pc' = "raised"
                 /\ UNCHANGED <<pids, believed, retry, naps>>
       ELSE /\ sd_exc' = Propagated(v_exc)
            /\ sd_pc' = "raised"
            /\ UNCHANGED <<pids, believed, retry, naps>>
    /\ UNCHANGED <<sd_daemon, defer_config, cmdline, launched, attempts,
                   procs, signals, orphans, vvars, envvars, notStart>>

\* "if not defer_config: await self._load_config(daemon)": the vtysh process
\* exits with 0, with 1..127, or is terminated by a signal
SdLoadConfig ==
    /\ sd_pc = "load"
    /\ \/ /\ sd_pc' = "done"
          /\ believed' = believed \cup {sd_daemon}
          /\ UNCHANGED sd_exc
       \/ /\ sd_exc' = Propagated("FRRStartupVtyshConfigFail")
          /\ sd_pc' = "raised"
          /\ UNCHANGED believed
       \/ /\ sd_exc' = Propagated("CalledProcessError")
          /\ sd_pc' = "raised"
          /\ UNCHANGED believed
    /\ UNCHANGED <<sd_daemon, defer_config, cmdline, launched, retry,
                   attempts, naps, rvars, orphans, vvars, envvars, notStart>>

\* the launched daemon binds its control socket and listens on it
DaemonListen ==
    /\ sd_daemon \in DOMAIN procs
    /\ procs[sd_daemon] = "running"
    /\ sockPath # "listening"
    /\ sockPath' = "listening"
    /\ daemonPid' = PidOf(sd_daemon)
    /\ UNCHANGED <<pathTooLong, inflight, peerClosed, respLen, daemonBytes,
                   respMax, pids, procs, signals, gvars, vvars, sdvars,
                   notStart>>

\* the launched daemon exits: its socket file stays, its connection closes
DaemonDie ==
    /\ sd_daemon \in DOMAIN procs
    /\ procs[sd_daemon] = "running"
    /\ procs' = [procs EXCEPT ![sd_daemon] = "gone"]
    /\ sockPath' = IF sockPath = "listening" THEN "refusing" ELSE sockPath
    /\ peerClosed' = (peerClosed \/ (sock = "open" /\ v_pc \in {"loop", "recv"}))
    /\ UNCHANGED <<pathTooLong, daemonPid, inflight, respLen, daemonBytes,
                   respMax, pids, signals, gvars, vvars, sdvars, notStart>>

\* the most bytes the daemon writes in answer to one bookkeeping command
StartRespMax == 4

InitStart ==
    /\ MuxInit
    /\ CallParked
    /\ StopParked
    /\ sockPath \in {"missing", "refusing"}
    /\ pathTooLong = FALSE
    /\ daemonPid = 0
    /\ inflight = <<>>
    /\ peerClosed = FALSE
    /\ respLen = 0
    /\ daemonBytes = CodeBytes
    /\ respMax = StartRespMax
    /\ LifecycleParked
    /\ HarnessParked
    /\ pids = <<>>
    /\ procs = [d \in Daemons |-> "none"]
    /\ signals = <<>>
    /\ believed = {}
    /\ orphans = [d \in Daemons |-> 0]
    /\ sd_pc = "call"
    /\ sd_daemon \in Daemons
    /\ defer_config \in BOOLEAN
    /\ cmdline = <<>>
    /\ launched = <<>>
    /\ retry = 0
    /\ attempts = 0
    /\ naps = 0
    /\ sd_exc = NoException

NextStart ==
    \/ SdCall
    \/ SdPoll
    \/ SdPolled
    \/ SdLoadConfig
    \/ VConnect
    \/ VSend
    \/ VRecv
    \/ VReturn
    \/ VTimeout
    \/ DaemonWrite
    \/ DaemonClose
    \/ DaemonListen
    \/ DaemonDie

SpecStart == InitStart /\ [][NextStart]_vars

(***************************************************************************)
(* frr/core.py: FRRRouterNS.stop_daemon.                                   *)
(***************************************************************************)
\* the stop_daemon calls a behaviour makes
MaxStopCalls == 2

TopotatoDaemonCrash(d) ==
    [type |-> "TopotatoDaemonCrash", daemon |-> d, router |-> Router,
     cmdline |-> <<>>]

TopotatoDaemonStopFail(d) ==
    [type |-> "TopotatoDaemonStopFail", daemon |-> d, router |-> Router,
     cmdline |-> <<>>]

\* a plausible slip: the entry is left in the dict
DictKeep(dict, key) == dict

\* del self.pids[daemon]
DictDel(dict, key) == [k \in DOMAIN dict \ {key} |-> dict[k]]

\* os.kill(pid, sig) finds a process: otherwise it raises ProcessLookupError
ProcessFound(pid) ==
    \E d \in DOMAIN procs : PidOf(d) = pid /\ procs[d] = "running"

\* the record of a signal that os.kill delivered
Killed(pid, sig) == [pid |-> pid, sig |-> sig]

\* a plausible slip: a process that is already gone counts as stopped
GoneAtFirstKillReturns(d) == [pc |-> "done", exc |-> NoException]

\* "except ProcessLookupError as e:" of the first os.kill
GoneAtFirstKill(d) == [pc |-> "raised", exc |-> TopotatoDaemonCrash(d)]

\* a plausible slip: one more turn of the loop
LastPollLate(i) == i = 5

\* "for i in range(0, 5)": i is the last value of the loop
LastPoll(i) == i = 4

\* the argument of asyncio.sleep(i * 0.1), in milliseconds
PollDelay(i) == i * 100

\* stop_daemon(daemon) up to its first suspension: the test of pids, the
\* removal from pids, the first os.kill, and the entry into the loop
StopBegin(d) ==
    /\ st_daemon' = d
    /\ st_exc' = IF d \in DOMAIN pids /\ ~ProcessFound(pids[d])
                 THEN GoneAtFirstKill(d).exc ELSE NoException
    /\ polls' = <<>>
    /\ sigsBefore' = Len(signals)
    /\ st_i' = 0
    /\ IF d \notin DOMAIN pids
       THEN /\ st_pc' = "done"
            /\ firstKill' = "none"
            /\ UNCHANGED <<st_pid, pids, signals>>
       ELSE /\ st_pid' = pids[d]
            /\ pids' = DictDel(pids, d)
            /\ IF ProcessFound(pids[d])
               THEN /\ signals' = Append(signals, Killed(pids[d], "SIGTERM"))
                    /\ firstKill' = "found"
                    /\ st_pc' = "sleep"
               ELSE /\ firstKill' = "gone"
                    /\ st_pc' = GoneAtFirstKill(d).pc
                    /\ UNCHANGED signals
    /\ believed' = IF d \in DOMAIN pids /\ ~ProcessFound(pids[d])
                    THEN believed \ {d} ELSE believed

\* a stop_daemon(daemon) call of the test
StCall(d) ==
    /\ st_pc \in {"idle", "done", "raised"}
    /\ ncalls < MaxStopCalls
    /\ ncalls' = ncalls + 1
    /\ StopBegin(d)
    /\ UNCHANGED <<procs, orphans, notStop>>

\* one turn of the loop: asyncio.sleep(i * 0.1) is over, os.kill runs, and
\* the call returns, goes to sleep again, or raises after the last turn
StPoll ==
    /\ st_pc = "sleep"
    /\ polls' = Append(polls, [delay |-> PollDelay(st_i),
                               found |-> ProcessFound(st_pid)])
    /\ IF ProcessFound(st_pid)
       THEN /\ signals' = Append(signals, Killed(st_pid, "SIGTERM"))
            /\ IF LastPoll(st_i)
               THEN /\ st_exc' = TopotatoDaemonStopFail(st_daemon)
                    /\ st_pc' = "raised"
                    /\ UNCHANGED st_i
               ELSE /\ st_i' = st_i + 1
                    /\ UNCHANGED <<st_pc, st_exc>>
            /\ UNCHANGED believed
       ELSE /\ st_pc' = "done"
            /\ believed' = believed \ {st_daemon}
            /\ UNCHANGED <<signals, st_i, st_exc>>
    /\ UNCHANGED <<st_daemon, st_pid, firstKill, sigsBefore, ncalls, pids,
                   procs, orphans, notStop>>

\* a daemon process exits, after a SIGTERM or on its own
ProcExit(d) ==
    /\ procs[d] = "running"
    /\ procs' = [procs EXCEPT ![d] = "gone"]
    /\ UNCHANGED <<pids, signals, gvars, stvars, notStop>>

\* per daemon: never started ("none"), or started, with its pid recorded, and
\* its process running or gone since
StartedDaemons == [Daemons -> {"none", "running", "gone"}]

InitStop ==
    /\ MuxInit
    /\ VtyshParked
    /\ StartParked
    /\ StopParked
    /\ LifecycleParked
    /\ HarnessParked
    /\ procs \in StartedDaemons
    /\ pids = [d \in {e \in Daemons : procs[e] # "none"} |-> PidOf(d)]
    /\ signals = <<>>
    /\ believed = DOMAIN pids
    /\ orphans = [d \in Daemons |-> 0]

NextStop ==
    \/ \E d \in Daemons : StCall(d)
    \/ StPoll
    \/ \E d \in Daemons : ProcExit(d)

\* asyncio.sleep(i * 0.1) completes and the event loop resumes the call
SpecStop == InitStop /\ [][NextStop]_vars /\ WF_vars(StPoll)

(***************************************************************************)
(* frr/core.py: the daemons of one router over a sequence of start_daemon, *)
(* stop_daemon, restart_daemon and end_prep calls, with daemons that exit  *)
(* at any time.  The calls are made one after the other.                   *)
(***************************************************************************)
\* the supervisor calls a behaviour makes
MaxOps == 2

Ended == {"idle", "done", "raised"}

\* no supervisor call is in progress
Idle ==
    /\ sd_pc \in Ended
    /\ st_pc \in Ended
    /\ rs_pc \in Ended
    /\ ep_pc \in Ended

\* what the control socket of daemon d can be when a call turns to it: bound
\* by a live process, left behind by a dead one, or not there
SocketOf(d) ==
    IF procs[d] = "running" THEN {"listening", "missing"}
    ELSE IF procs[d] = "gone" THEN {"refusing", "missing"}
    ELSE {"missing"}

\* the locals of the calls that have ended are gone, and their sockets closed
ForgetCall ==
    /\ v_pc' = "idle"
    /\ v_input' = [isStr |-> TRUE, text |-> <<>>, list |-> <<>>]
    /\ cmds' = <<>>
    /\ cmd' = <<>>
    /\ sock' = "none"
    /\ sends' = <<>>
    /\ cur_out' = <<>>
    /\ output' = <<>>
    /\ emitted' = <<>>
    /\ retcode' = 0
    /\ v_pid' = 0
    /\ v_result' = None
    /\ v_exc' = NoExc

ForgetSocket ==
    /\ sockPath' = "missing"
    /\ daemonPid' = 0
    /\ inflight' = <<>>
    /\ peerClosed' = FALSE
    /\ respLen' = 0
    /\ UNCHANGED <<pathTooLong, daemonBytes, respMax>>

ForgetStart ==
    /\ sd_pc' = "idle"
    /\ sd_daemon' = ""
    /\ defer_config' = FALSE
    /\ cmdline' = <<>>
    /\ retry' = 0
    /\ attempts' = 0
    /\ naps' = 0
    /\ sd_exc' = NoException
    /\ UNCHANGED launched

ForgetStop ==
    /\ st_pc' = "idle"
    /\ st_daemon' = ""
    /\ st_pid' = 0
    /\ st_i' = 0
    /\ st_exc' = NoException
    /\ firstKill' = "none"
    /\ sigsBefore' = 0
    /\ polls' = <<>>
    /\ UNCHANGED ncalls

ForgetRestart ==
    /\ rs_pc' = "idle"
    /\ rs_daemon' = ""

ForgetEndPrep ==
    /\ ep_pc' = "idle"
    /\ ep_items' = <<>>

\* start_daemon(daemon, defer_config) is called
StartBegin(d, defer) ==
    /\ sd_pc' = "call"
    /\ sd_daemon' = d
    /\ defer_config' = defer
    /\ cmdline' = <<>>
    /\ retry' = 0
    /\ attempts' = 0
    /\ naps' = 0
    /\ sd_exc' = NoException
    /\ sockPath' \in SocketOf(d)
    /\ daemonPid' = IF sockPath' = "listening" THEN PidOf(d) ELSE 0
    /\ inflight' = <<>>
    /\ peerClosed' = FALSE
    /\ respLen' = 0
    /\ ForgetCall
    /\ UNCHANGED <<launched, pathTooLong, daemonBytes, respMax>>

RtStart(d, defer) ==
    /\ Idle
    /\ nops < MaxOps
    /\ nops' = nops + 1
    /\ StartBegin(d, defer)
    /\ ForgetStop
    /\ ForgetRestart
    /\ ForgetEndPrep
    /\ UNCHANGED <<rvars, gvars, tlvars, hvars>>

RtStop(d) ==
    /\ Idle
    /\ nops < MaxOps
    /\ nops' = nops + 1
    /\ StopBegin(d)
    /\ ForgetStart
    /\ ForgetCall
    /\ ForgetSocket
    /\ ForgetRestart
    /\ ForgetEndPrep
    /\ UNCHANGED <<procs, orphans, ncalls, tlvars, hvars>>

\* restart_daemon(daemon) is called: "await self.stop_daemon(daemon)" begins
RtRestart(d) ==
    /\ Idle
    /\ nops < MaxOps
    /\ nops' = nops + 1
    /\ rs_pc' = "stop"
    /\ rs_daemon' = d
    /\ StopBegin(d)
    /\ ForgetStart
    /\ ForgetCall
    /\ ForgetSocket
    /\ ForgetEndPrep
    /\ UNCHANGED <<procs, orphans, ncalls, tlvars, hvars>>

\* a plausible slip: the daemon is started whatever stop_daemon did
AfterStopAlways(pc) == "start"

\* where restart_daemon goes when "await self.stop_daemon(daemon)" is over:
\* an exception of stop_daemon passes through
AfterStop(pc) == IF pc = "raised" THEN "raised" ELSE "start"

\* stop_daemon has ended: its exception ends restart_daemon, its return is
\* followed by "await self.start_daemon(daemon)"
RtRestartStopped ==
    /\ rs_pc = "stop"
    /\ st_pc \in {"done", "raised"}
    /\ rs_pc' = AfterStop(st_pc)
    /\ IF rs_pc' = "raised"
       THEN UNCHANGED <<sdvars, vvars, envvars>>
       ELSE StartBegin(rs_daemon, FALSE)
    /\ UNCHANGED <<rvars, gvars, tlvars, hvars, stvars, rs_daemon, ep_pc, ep_items,
                   nops>>

\* start_daemon has ended, and restart_daemon with it
RtRestartStarted ==
    /\ rs_pc = "start"
    /\ sd_pc \in {"done", "raised"}
    /\ rs_pc' = sd_pc
    /\ UNCHANGED <<rvars, gvars, vvars, envvars, sdvars, tlvars, hvars, stvars,
                   rs_daemon, ep_pc, ep_items, nops>>

\* the orders in which a dict with these keys can list them
Orders(keys) ==
    {o \in [1..Cardinality(keys) -> keys] :
        \A i, j \in 1..Cardinality(keys) : o[i] = o[j] => i = j}

\* end_prep is called: "list(reversed(self.pids.items()))"
RtEndPrep ==
    /\ Idle
    /\ nops < MaxOps
    /\ nops' = nops + 1
    /\ ep_pc' = "loop"
    /\ \E o \in Orders(DOMAIN pids) :
           ep_items' = [k \in 1..Len(o) |-> <<o[k], pids[o[k]]>>]
    /\ ForgetStart
    /\ ForgetCall
    /\ ForgetSocket
    /\ ForgetStop
    /\ ForgetRestart
    /\ UNCHANGED <<rvars, gvars, tlvars, hvars>>

\* one turn of the loop of end_prep: os.kill and asyncio.sleep(0.01), or the
\* del after ProcessLookupError; after the last turn, super().end_prep()
EpStep ==
    /\ ep_pc = "loop"
    /\ IF ep_items = <<>>
       THEN /\ ep_pc' = "done"
            /\ UNCHANGED <<ep_items, pids, signals, believed>>
       ELSE LET daemon == Head(ep_items)[1]
                pid == Head(ep_items)[2]
            IN  /\ ep_items' = Tail(ep_items)
                /\ IF ProcessFound(pid)
                   THEN /\ signals' = Append(signals, Killed(pid, "SIGTERM"))
                        /\ UNCHANGED <<pids, believed>>
                   ELSE /\ pids' = DictDel(pids, daemon)
                        /\ believed' = believed \ {daemon}
                        /\ UNCHANGED signals
                /\ UNCHANGED ep_pc
    /\ UNCHANGED <<procs, orphans, vvars, envvars, sdvars, tlvars, hvars, stvars,
                   rs_pc, rs_daemon, nops>>

\* the daemon answers the command it was sent with an empty text and a return
\* code, written at once
DaemonAnswer ==
    /\ sock = "open"
    /\ ~peerClosed
    /\ v_pc = "recv"
    /\ respLen = 0
    /\ \E c \in daemonBytes : inflight' = <<0, 0, 0, c>>
    /\ respLen' = 4
    /\ UNCHANGED <<vvars, sockPath, pathTooLong, daemonPid, peerClosed,
                   daemonBytes, respMax, notVtysh>>

\* the connection attempts of a start_daemon call after which the launched
\* daemon no longer binds its socket (SpecStart has the later binds)
MaxBindAttempts == 1

RtDaemonListen ==
    /\ attempts <= MaxBindAttempts
    /\ DaemonListen

\* a daemon process exits while no call is talking to it
RtProcExit(d) ==
    /\ d # sd_daemon \/ sd_pc \in Ended
    /\ ProcExit(d)

\* a process of the daemon that a later launch has replaced exits
OrphanExit(d) ==
    /\ orphans[d] > 0
    /\ orphans' = [orphans EXCEPT ![d] = @ - 1]
    /\ UNCHANGED <<rvars, believed, vvars, envvars, sdvars, tlvars, hvars, stvars,
                   lcvars>>

\* a router some of whose daemons were started
InitRouter ==
    /\ MuxInit
    /\ CallParked
    /\ StartParked
    /\ StopParked
    /\ LifecycleParked
    /\ HarnessParked
    /\ sockPath = "missing"
    /\ pathTooLong = FALSE
    /\ daemonPid = 0
    /\ inflight = <<>>
    /\ peerClosed = FALSE
    /\ respLen = 0
    /\ daemonBytes = CodeBytes
    /\ respMax = StartRespMax
    /\ procs \in [Daemons -> {"none", "running"}]
    /\ pids = [d \in {e \in Daemons : procs[e] = "running"} |-> PidOf(d)]
    /\ signals = <<>>
    /\ believed = DOMAIN pids
    /\ orphans = [d \in Daemons |-> 0]

NextRouter ==
    \/ \E d \in Daemons, defer \in BOOLEAN : RtStart(d, defer)
    \/ \E d \in Daemons : RtStop(d)
    \/ \E d \in Daemons : RtRestart(d)
    \/ RtRestartStopped
    \/ RtRestartStarted
    \/ RtEndPrep
    \/ EpStep
    \/ SdCall
    \/ SdPoll
    \/ SdPolled
    \/ SdLoadConfig
    \/ VConnect
    \/ VSend
    \/ VRecv
    \/ VReturn
    \/ VTimeout
    \/ StPoll
    \/ DaemonAnswer
    \/ DaemonClose
    \/ RtDaemonListen
    \/ DaemonDie
    \/ \E d \in Daemons : RtProcExit(d)
    \/ \E d \in Daemons : OrphanExit(d)

SpecRouter == InitRouter /\ [][NextRouter]_vars

(***************************************************************************)
(* The post-start health check: do_start of topotato/base.py calls         *)
(* start_post of every router, which sends "show version" to the router's  *)
(* daemons and appends those that fail to the list `failed`.               *)
(***************************************************************************)
\* netinst.network.routers.keys(), in the order of the dict
Routers == <<"r1", "r2">>

\* FRRSetup.daemons_all, cut down to the daemons of the model
DaemonsAll == <<"zebra", "ospfd">>

\* how the control socket of a daemon answers "show version":
\*   "ok"       the response ends in return code 0
\*   "error"    the response ends in a return code other than 0
\*   "refusing" the socket file is there and nothing listens on it
\*   "missing"  there is no socket file
\*   "silent"   the daemon accepted the connection and sends nothing
Healths == {"ok", "error", "refusing", "missing", "silent"}

\* FRRConfigs.daemons: daemons_all cut down to the configured daemons
ConfigDaemons(r) == SelectSeq(DaemonsAll, LAMBDA d : d \in configs[r])

\* want_daemon
WantDaemon(r, d) == d \in configs[r]

\* what vtysh_polled(daemon, "show version") ends with
VtyshPolled(r, d) ==
    CASE health[r][d] = "missing" -> [exc |-> "FileNotFoundError", rc |-> 0]
      [] health[r][d] = "refusing" ->
             [exc |-> "ConnectionRefusedError", rc |-> 0]
      [] health[r][d] = "silent" -> [exc |-> "TimeoutError", rc |-> 0]
      [] health[r][d] = "error" -> [exc |-> NoExc, rc |-> 1]
      [] OTHER -> [exc |-> NoExc, rc |-> 0]

\* the exceptions of vtysh_polled after which start_post returns
PostReturnsOn == {"ConnectionRefusedError", "FileNotFoundError"}

\* start_post of router r from the k-th daemon of its list on, with the list
\* `failed` as f and the daemons queried so far as q
RECURSIVE StartPostFrom(_, _, _, _)
StartPostFrom(r, k, f, q) ==
    IF k > Len(ConfigDaemons(r))
    THEN [failed |-> f, queried |-> q, exc |-> NoExc]
    ELSE LET d == ConfigDaemons(r)[k]
             res == VtyshPolled(r, d)
             q2 == q \cup {<<r, d>>}
         IN  IF ~WantDaemon(r, d) \/ d \notin frr_daemons
             THEN StartPostFrom(r, k + 1, f, q)
             ELSE IF res.exc \in PostReturnsOn
             THEN [failed |-> Append(f, <<r, d>>), queried |-> q2,
                   exc |-> NoExc]
             ELSE IF res.exc # NoExc
             THEN [failed |-> f, queried |-> q2, exc |-> res.exc]
             ELSE IF res.rc # 0
             THEN StartPostFrom(r, k + 1, Append(f, <<r, d>>), q2)
             ELSE StartPostFrom(r, k + 1, f, q2)

StartPost(r, f, q) == StartPostFrom(r, 1, f, q)

\* TopotatoDaemonCrash of do_start: the names of the daemons and of the
\* routers are joined from sets, in no particular order
DoStartCrash(f) ==
    [type |-> "TopotatoDaemonCrash",
     daemons |-> {f[k][2] : k \in 1..Len(f)},
     routers |-> {f[k][1] : k \in 1..Len(f)}]

\* do_start, after netinst.start(): failed = []
DoStartBegin ==
    /\ ds_pc = "idle"
    /\ failed' = <<>>
    /\ ds_i' = 1
    /\ ds_pc' = "post"
    /\ UNCHANGED <<configs, frr_daemons, health, queried, ds_exc>>
    /\ UNCHANGED notDoStart

\* one round of the loop of do_start: router.start_post(timeline, failed)
RouterStartPost ==
    /\ ds_pc = "post"
    /\ ds_i <= Len(Routers)
    /\ LET res == StartPost(Routers[ds_i], failed, queried)
       IN  /\ failed' = res.failed
           /\ queried' = res.queried
           /\ IF res.exc # NoExc
              THEN /\ ds_pc' = "raised"
                   /\ ds_exc' = [type |-> res.exc, daemons |-> {},
                                 routers |-> {}]
                   /\ ds_i' = ds_i
              ELSE /\ ds_i' = ds_i + 1
                   /\ UNCHANGED <<ds_pc, ds_exc>>
    /\ UNCHANGED <<configs, frr_daemons, health>>
    /\ UNCHANGED notDoStart

\* the end of do_start: it raises when `failed` is not empty
DoStartVerdict ==
    /\ ds_pc = "post"
    /\ ds_i > Len(Routers)
    /\ IF Len(failed) > 0
       THEN /\ ds_pc' = "raised"
            /\ ds_exc' = DoStartCrash(failed)
       ELSE /\ ds_pc' = "started"
            /\ UNCHANGED ds_exc
    /\ UNCHANGED <<configs, frr_daemons, health, failed, queried, ds_i>>
    /\ UNCHANGED notDoStart

InitPost ==
    /\ MuxInit /\ VtyshParked /\ RouterParked /\ StartParked /\ StopParked
    /\ LifecycleParked
    /\ TicksParked
    /\ LeaksParked
    /\ AtexitParked
    /\ NetParked
    /\ NsParked
    /\ CaretakerParked
    /\ ConnParked
    /\ LoopParked
    /\ EnvParked
    /\ MuxParked
    /\ ReadParked
    /\ RunParked
    /\ NsStartParked
    /\ ScanParked
    /\ configs \in [{Routers[k] : k \in 1..Len(Routers)} -> SUBSET Daemons]
    /\ frr_daemons \in {Daemons, {"zebra"}}
    /\ health \in [{Routers[k] : k \in 1..Len(Routers)} ->
                       [Daemons -> Healths]]
    /\ failed = <<>>
    /\ queried = {}
    /\ ds_pc = "idle"
    /\ ds_i = 0
    /\ ds_exc = [type |-> "", daemons |-> {}, routers |-> {}]

NextPost ==
    \/ DoStartBegin
    \/ RouterStartPost
    \/ DoStartVerdict

SpecPost == InitPost /\ [][NextPost]_vars

(***************************************************************************)
(* Timed polling: TimingParams.ticks() of topotato/timeline.py, as used by *)
(* the polling assertions of topotato/assertions.py.  Times are whole      *)
(* numbers of a clock unit, from 0 on.                                     *)
(***************************************************************************)
\* started_ts is drawn from 0..MaxAnchor
MaxAnchor == 1
\* a delay is None or drawn from 0..MaxDelay
MaxDelay == 3
\* a maxwait is None or drawn from 0..MaxWait
MaxWait == 4
\* polling assertions of one test function
MaxAsserts == 2
\* the clock stops at the latest deadline
MaxClock == MaxAnchor + MaxWait
\* ticks yielded to one polling loop; more than a positive delay can give
MaxTicks == MaxWait + 1

\* float("-inf"), below every time of the model
NegInf == -1

Delays == {None} \cup {Some(d) : d \in 0..MaxDelay}
Maxwaits == {None} \cup {Some(w) : w \in 0..MaxWait}

\* self.maxwait or 0.0
MaxwaitOr0(mw) == IF mw = None \/ mw = Some(0) THEN 0 ELSE mw[1]

\* the while loop without the comparison with now
TicksLoopAllGrid(nt, deadline, now, delay) ==
    IF ~(nt < deadline) THEN [pc |-> "exhausted", nexttick |-> nt]
    ELSE [pc |-> "yielded", nexttick |-> nt]

\* a deadline counted from the moment polling begins
EvaluateFromNow(mw) == <<tk_now, tk_now + MaxwaitOr0(mw)>>

\* a first tick only while the deadline has not passed
TicksFirstBeforeDeadline(maxwait) ==
    IF clock < started_ts + MaxwaitOr0(maxwait) THEN <<NegInf>> ELSE <<>>

\* TimingParams.evaluate: (start, start + (maxwait or 0.0))
Evaluate(mw) == <<started_ts, started_ts + MaxwaitOr0(mw)>>

\* the while loop of ticks() entered with nexttick = nt: it yields the first
\* grid point that is not before now, ends when the deadline is reached, and
\* never leaves the loop when the delay is 0 and nexttick is before now
RECURSIVE TicksLoop(_, _, _, _)
TicksLoop(nt, deadline, now, delay) ==
    IF ~(nt < deadline) THEN [pc |-> "exhausted", nexttick |-> nt]
    ELSE IF nt >= now THEN [pc |-> "yielded", nexttick |-> nt]
    ELSE IF delay = 0 THEN [pc |-> "hung", nexttick |-> nt]
    ELSE TicksLoop(nt + delay, deadline, now, delay)

\* ticks() up to its first yield: the immediate tick, whatever the deadline
TicksFirst(maxwait) == <<NegInf>>

\* the polling loop of the assertion that has just ended, for the next one
EndOfPoll(pc) ==
    [pc |-> pc, maxwait |-> tk_maxwait, ticks |-> tk_ticks,
     tries |-> tk_tries]

\* a polling assertion begins: TimedMixin.__init__ made its TimingParams,
\* the loop asks ticks() for the first tick, which reads the clock and yields
\* the immediate tick
PollBegin(delay, maxwait) ==
    /\ tk_pc \in {"idle", "passed", "failed", "raised"}
    /\ tk_n < MaxAsserts
    /\ tk_n' = tk_n + 1
    /\ tk_prev' = IF tk_n = 0 THEN NoPoll ELSE EndOfPoll(tk_pc)
    /\ tk_delay' = delay
    /\ tk_maxwait' = maxwait
    /\ tk_now' = clock
    /\ nexttick' = None
    /\ tk_deadline' = None
    /\ tk_ticks' = TicksFirst(maxwait)
    /\ tk_tries' = 0
    /\ tk_pc' = IF tk_ticks' = <<>> THEN "failed" ELSE "yielded"
    /\ UNCHANGED <<clock, started_ts>>
    /\ UNCHANGED notTicks

\* the body of the polling loop, once the clock has reached the tick: one
\* attempt, which breaks out of the loop when it succeeds
PollAttempt(ok) ==
    /\ tk_pc = "yielded"
    /\ clock >= tk_ticks[Len(tk_ticks)]
    /\ tk_tries' = tk_tries + 1
    /\ tk_pc' = IF ok THEN "passed" ELSE "resume"
    /\ UNCHANGED <<clock, started_ts, tk_n, tk_delay, tk_maxwait, tk_now,
                   nexttick, tk_deadline, tk_ticks, tk_prev>>
    /\ UNCHANGED notTicks

\* ticks() resumed after a yield: after the immediate tick it reads the
\* anchor and sets nexttick and deadline, after a timed tick it adds the
\* delay; then the while loop runs to its next yield or to its end, where
\* the else branch of the polling loop raises
TicksNext ==
    /\ tk_pc = "resume"
    /\ Len(tk_ticks) < MaxTicks
    /\ IF tk_delay = None
       THEN /\ tk_pc' = "raised"
            /\ UNCHANGED <<nexttick, tk_deadline, tk_ticks>>
       ELSE LET delay == tk_delay[1]
                deadline == IF nexttick = None THEN Evaluate(tk_maxwait)[2]
                            ELSE tk_deadline[1]
                nt == IF nexttick = None THEN Evaluate(tk_maxwait)[1] + delay
                      ELSE nexttick[1] + delay
                res == TicksLoop(nt, deadline, tk_now, delay)
            IN  /\ tk_deadline' = Some(deadline)
                /\ nexttick' = Some(res.nexttick)
                /\ tk_pc' = IF res.pc = "exhausted" THEN "failed" ELSE res.pc
                /\ tk_ticks' = IF res.pc = "yielded"
                               THEN Append(tk_ticks, res.nexttick)
                               ELSE tk_ticks
    /\ UNCHANGED <<clock, started_ts, tk_n, tk_delay, tk_maxwait, tk_now,
                   tk_tries, tk_prev>>
    /\ UNCHANGED notTicks

\* time passes
ClockTick ==
    /\ tk_pc # "idle"
    /\ clock < MaxClock
    /\ clock' = clock + 1
    /\ UNCHANGED <<started_ts, tk_n, tk_pc, tk_delay, tk_maxwait, tk_now,
                   nexttick, tk_deadline, tk_ticks, tk_tries, tk_prev>>
    /\ UNCHANGED notTicks

InitTicks ==
    /\ MuxInit /\ VtyshParked /\ RouterParked /\ StartParked /\ StopParked
    /\ LifecycleParked
    /\ DoStartParked
    /\ LeaksParked
    /\ AtexitParked
    /\ NetParked
    /\ NsParked
    /\ CaretakerParked
    /\ ConnParked
    /\ LoopParked
    /\ EnvParked
    /\ MuxParked
    /\ ReadParked
    /\ RunParked
    /\ NsStartParked
    /\ ScanParked
    /\ started_ts \in 0..MaxAnchor
    /\ clock \in 0..MaxClock
    /\ tk_n = 0
    /\ tk_pc = "idle"
    /\ tk_delay = None
    /\ tk_maxwait = None
    /\ tk_now = 0
    /\ nexttick = None
    /\ tk_deadline = None
    /\ tk_ticks = <<>>
    /\ tk_tries = 0
    /\ tk_prev = NoPoll

NextTicks ==
    \/ \E delay \in Delays, maxwait \in Maxwaits : PollBegin(delay, maxwait)
    \/ \E ok \in BOOLEAN : PollAttempt(ok)
    \/ TicksNext
    \/ ClockTick

SpecTicks == InitTicks /\ [][NextTicks]_vars

(***************************************************************************)
(* File descriptor leak checks: FDState and FDDelta of topotato/leaks.py,  *)
(* over the descriptor table of the process.                               *)
(***************************************************************************)
\* descriptor numbers of the process are 0..MaxFd
MaxFd == 3
\* FDState snapshots of one behaviour
MaxSnaps == 2

\* FDState.stop_after
StopAfter == 256

\* (S_IFMT(st_mode), st_dev, st_ino) of the objects descriptors refer to: a
\* pipe, and a socket with the inode number of the pipe
PipeKey == <<"S_IFIFO", 12, 7>>
FdKeys == {PipeKey, <<"S_IFSOCK", 8, 7>>}

\* os.fstat(fd) succeeds; otherwise it raises OSError with EBADF
Live(table, fd) == fd \in DOMAIN table /\ table[fd] # None

LiveFds(table) == {fd \in DOMAIN table : table[fd] # None}

\* the lowest descriptor number that is free, as open, pipe and dup pick it
LowestFree(table) ==
    CHOOSE fd \in DOMAIN table :
        /\ table[fd] = None
        /\ \A g \in DOMAIN table : table[g] = None => fd <= g

\* the loop of FDState.__init__ counts failed probes in a row, from 0 again
\* after every live descriptor: a run of failed probes starts at 0 or right
\* after a live descriptor
RunStarts(table) == {0} \cup {fd + 1 : fd \in LiveFds(table)}

\* the first number of the run of stop_after failed probes that ends the loop
ScanEnd(table) ==
    CHOOSE n \in RunStarts(table) :
        /\ \A fd \in n..(n + StopAfter - 1) : ~Live(table, fd)
        /\ \A m \in RunStarts(table) :
               (\A fd \in m..(m + StopAfter - 1) : ~Live(table, fd)) => n <= m

\* FDState(): a snapshot of the descriptor table, self[fd] = self._key(st)
\* for every live descriptor the loop gets to
FDState(table) ==
    [fd \in {f \in LiveFds(table) : f < ScanEnd(table)} |-> table[fd]]

\* a comparison of the inode numbers only
ChangedByInode(before, after) ==
    {fd \in DOMAIN before \cap DOMAIN after : before[fd][3] # after[fd][3]}

\* the loop of FDDelta.__init__ over the numbers in both snapshots
Changed(before, after) ==
    {fd \in DOMAIN before \cap DOMAIN after : before[fd] # after[fd]}

\* FDDelta(before, after)
FDDelta(before, after) ==
    [opened |-> DOMAIN after \ DOMAIN before,
     closed |-> DOMAIN before \ DOMAIN after,
     changed |-> Changed(before, after)]

\* a length that leaves out the changed descriptors
DeltaLenNoChanged(delta) ==
    Cardinality(delta.opened) + Cardinality(delta.closed)

\* FDDelta.__len__
DeltaLen(delta) ==
    Cardinality(delta.opened) + Cardinality(delta.closed)
        + Cardinality(delta.changed)

\* fd_ops after an operation of the given kind
OpsWith(kind) == IF Len(snaps) >= 1 THEN fd_ops \cup {kind} ELSE fd_ops

\* open() of an object, or socket(): the lowest free number refers to it
FdOpen(key) ==
    /\ Len(snaps) < MaxSnaps
    /\ \E fd \in DOMAIN fdtable : fdtable[fd] = None
    /\ fdtable' = [fdtable EXCEPT ![LowestFree(fdtable)] = key]
    /\ fd_ops' = OpsWith("open")
    /\ UNCHANGED <<snaps, tables>>
    /\ UNCHANGED notLeaks

\* os.pipe(): the two lowest free numbers refer to the two ends of a new pipe
FdPipe ==
    /\ Len(snaps) < MaxSnaps
    /\ Cardinality({fd \in DOMAIN fdtable : fdtable[fd] = None}) >= 2
    /\ LET a == LowestFree(fdtable)
           b == LowestFree([fdtable EXCEPT ![a] = PipeKey])
       IN  fdtable' = [fdtable EXCEPT ![a] = PipeKey, ![b] = PipeKey]
    /\ fd_ops' = OpsWith("pipe")
    /\ UNCHANGED <<snaps, tables>>
    /\ UNCHANGED notLeaks

\* os.close(fd)
FdClose(fd) ==
    /\ Len(snaps) < MaxSnaps
    /\ Live(fdtable, fd)
    /\ fdtable' = [fdtable EXCEPT ![fd] = None]
    /\ fd_ops' = OpsWith("close")
    /\ UNCHANGED <<snaps, tables>>
    /\ UNCHANGED notLeaks

\* os.dup(fd): the lowest free number refers to what fd refers to
FdDup(fd) ==
    /\ Len(snaps) < MaxSnaps
    /\ Live(fdtable, fd)
    /\ \E g \in DOMAIN fdtable : fdtable[g] = None
    /\ fdtable' = [fdtable EXCEPT ![LowestFree(fdtable)] = fdtable[fd]]
    /\ fd_ops' = OpsWith("dup")
    /\ UNCHANGED <<snaps, tables>>
    /\ UNCHANGED notLeaks

\* os.dup2(fd, fd2): fd2, closed first when it is live, refers to what fd
\* refers to
FdDup2(fd, fd2) ==
    /\ Len(snaps) < MaxSnaps
    /\ Live(fdtable, fd)
    /\ fdtable' = [fdtable EXCEPT ![fd2] = fdtable[fd]]
    /\ fd_ops' = OpsWith("dup2")
    /\ UNCHANGED <<snaps, tables>>
    /\ UNCHANGED notLeaks

\* FDState() is called
Snapshot ==
    /\ Len(snaps) < MaxSnaps
    /\ snaps' = Append(snaps, FDState(fdtable))
    /\ tables' = Append(tables, fdtable)
    /\ UNCHANGED <<fdtable, fd_ops>>
    /\ UNCHANGED notLeaks

InitLeaks ==
    /\ MuxInit /\ VtyshParked /\ RouterParked /\ StartParked /\ StopParked
    /\ LifecycleParked
    /\ DoStartParked
    /\ TicksParked
    /\ AtexitParked
    /\ NetParked
    /\ NsParked
    /\ CaretakerParked
    /\ ConnParked
    /\ LoopParked
    /\ EnvParked
    /\ MuxParked
    /\ ReadParked
    /\ RunParked
    /\ NsStartParked
    /\ ScanParked
    /\ fdtable \in [0..MaxFd -> FdKeys \cup {None}]
    /\ snaps = <<>>
    /\ tables = <<>>
    /\ fd_ops = {}

NextLeaks ==
    \/ \E key \in FdKeys : FdOpen(key)
    \/ FdPipe
    \/ \E fd \in 0..MaxFd : FdClose(fd)
    \/ \E fd \in 0..MaxFd : FdDup(fd)
    \/ \E fd \in 0..MaxFd, fd2 \in 0..MaxFd : FdDup2(fd, fd2)
    \/ Snapshot

SpecLeaks == InitLeaks /\ [][NextLeaks]_vars

(***************************************************************************)
(* The cleanup closures of a virtual host: BaseNS.atexit, ctx_until_stop   *)
(* and _do_atexit of topotato/topobase.py.  Closures and wrappers are      *)
(* numbered in the order they are made.                                    *)
(***************************************************************************)
\* closures and wrappers made in one behaviour
MaxClosures == 3
\* with blocks of ctx_until_stop open at the same time
MaxNest == 2
\* _do_atexit calls on the virtual host
MaxTeardowns == 1

\* what a closure, or the __exit__ of a context manager, raises when it is
\* called: nothing, or an exception derived from Exception
ExcTypes == {"OSError", "RuntimeError"}
Outcomes == {NoExc} \cup ExcTypes

\* a loop without the try statement
CaughtNever(exc) == FALSE

\* except Exception
CaughtByDoAtexit(exc) == exc \in ExcTypes

\* self._atexit.append(fn)
AtexitAppend(list, fn) == Append(list, fn)

\* BaseNS.atexit: self._atexit.insert(0, fn)
AtexitInsert(list, fn) == <<fn>> \o list

\* a plain closure, and a _ContextAtexit wrapper
PlainFn(exc) ==
    [kind |-> "fn", raises |-> exc, exit_on_exception |-> FALSE,
     weak |-> FALSE]
ContextAtexit(exc, eoe, weak) ==
    [kind |-> "ctx", raises |-> exc, exit_on_exception |-> eoe,
     weak |-> weak]

\* what calling closure fn does: _ContextAtexit.__call__ returns at once
\* when the weakly held context manager is gone, and calls its __exit__
\* otherwise
CallRaises(fn) ==
    IF ax_fns[fn].kind = "ctx" /\ fn \in ctx_gone THEN NoExc
    ELSE ax_fns[fn].raises

CallExits(fn) == ax_fns[fn].kind = "ctx" /\ fn \notin ctx_gone

\* a wrapper that exits the context manager on any exception of the body
ExitNowOnAnyException(exit_on_exception, raised) == raised

\* _ContextAtexit.__exit__: "if self.exit_on_exception and exc_value is not
\* None", the context manager is exited at once
ExitNow(exit_on_exception, raised) == exit_on_exception /\ raised

\* ns.atexit(fn) with a new plain closure
AxRegister(exc) ==
    /\ ax_pc = "idle"
    /\ Len(ax_fns) < MaxClosures
    /\ ax_fns' = Append(ax_fns, PlainFn(exc))
    /\ ax_list' = AtexitInsert(ax_list, Len(ax_fns) + 1)
    /\ ax_reg' = Append(ax_reg, Len(ax_fns) + 1)
    /\ ctx_exits' = Append(ctx_exits, 0)
    /\ UNCHANGED <<ax_stack, ax_pc, ax_i, ax_ran, ax_warn, ctx_gone, ctx_raised, ax_runs>>
    /\ UNCHANGED notAtexit

\* with ns.ctx_until_stop(context, ...): the wrapper is made and entered
CtxEnter(exc, eoe, weak) ==
    /\ ax_pc = "idle"
    /\ Len(ax_fns) < MaxClosures
    /\ Len(ax_stack) < MaxNest
    /\ ax_fns' = Append(ax_fns, ContextAtexit(exc, eoe, weak))
    /\ ax_stack' = Append(ax_stack, Len(ax_fns) + 1)
    /\ ctx_exits' = Append(ctx_exits, 0)
    /\ UNCHANGED <<ax_list, ax_reg, ax_pc, ax_i, ax_ran, ax_warn, ctx_gone, ctx_raised,
                   ax_runs>>
    /\ UNCHANGED notAtexit

\* the innermost with block ends, with or without an exception:
\* _ContextAtexit.__exit__ calls the __exit__ of the context manager when
\* exit_on_exception is set and there is an exception, and registers the
\* wrapper with atexit() otherwise
CtxExit(bodyRaised) ==
    /\ ax_pc = "idle"
    /\ ax_stack # <<>>
    /\ LET fn == ax_stack[Len(ax_stack)]
       IN  /\ ax_stack' = SubSeq(ax_stack, 1, Len(ax_stack) - 1)
           /\ IF ExitNow(ax_fns[fn].exit_on_exception, bodyRaised)
              THEN /\ ctx_exits' = [ctx_exits EXCEPT ![fn] = @ + 1]
                   /\ UNCHANGED <<ax_list, ax_reg>>
              ELSE /\ ax_list' = AtexitInsert(ax_list, fn)
                   /\ ax_reg' = Append(ax_reg, fn)
                   /\ UNCHANGED ctx_exits
    /\ ctx_raised' = IF bodyRaised
                     THEN ctx_raised \cup {ax_stack[Len(ax_stack)]}
                     ELSE ctx_raised
    /\ UNCHANGED <<ax_fns, ax_pc, ax_i, ax_ran, ax_warn, ctx_gone, ax_runs>>
    /\ UNCHANGED notAtexit

\* a context manager held by a weak reference only goes away
CtxCollected(fn) ==
    /\ fn \in 1..Len(ax_fns)
    /\ ax_fns[fn].kind = "ctx" /\ ax_fns[fn].weak
    /\ \A k \in 1..Len(ax_stack) : ax_stack[k] # fn
    /\ fn \notin ctx_gone
    /\ ctx_gone' = ctx_gone \cup {fn}
    /\ UNCHANGED <<ax_fns, ax_list, ax_reg, ax_stack, ax_pc, ax_i, ax_ran,
                   ax_warn, ctx_exits, ax_runs, ctx_raised>>
    /\ UNCHANGED notAtexit

\* _do_atexit is called, at the stop of the network
DoAtexit ==
    /\ ax_pc \in {"idle", "done"}
    /\ ax_stack = <<>>
    /\ ax_runs < MaxTeardowns
    /\ ax_runs' = ax_runs + 1
    /\ ax_pc' = "running"
    /\ ax_i' = 1
    /\ ax_ran' = <<>>
    /\ ax_warn' = <<>>
    /\ UNCHANGED <<ax_fns, ax_list, ax_reg, ax_stack, ctx_exits, ctx_gone, ctx_raised>>
    /\ UNCHANGED notAtexit

\* one round of the loop of _do_atexit: the closure is called, and an
\* exception it raises is caught and turned into a warning
AxCall ==
    /\ ax_pc = "running"
    /\ ax_i <= Len(ax_list)
    /\ LET fn == ax_list[ax_i]
           exc == CallRaises(fn)
       IN  /\ ax_ran' = Append(ax_ran, [fn |-> fn, exc |-> exc])
           /\ ctx_exits' = IF CallExits(fn)
                           THEN [ctx_exits EXCEPT ![fn] = @ + 1]
                           ELSE ctx_exits
           /\ IF exc = NoExc
              THEN /\ ax_i' = ax_i + 1
                   /\ UNCHANGED <<ax_pc, ax_warn>>
              ELSE IF CaughtByDoAtexit(exc)
              THEN /\ ax_warn' = Append(ax_warn, fn)
                   /\ ax_i' = ax_i + 1
                   /\ UNCHANGED ax_pc
              ELSE /\ ax_pc' = "raised"
                   /\ UNCHANGED <<ax_i, ax_warn>>
    /\ UNCHANGED <<ax_fns, ax_list, ax_reg, ax_stack, ctx_gone, ctx_raised, ax_runs>>
    /\ UNCHANGED notAtexit

\* the loop of _do_atexit is over: it returns
AxReturn ==
    /\ ax_pc = "running"
    /\ ax_i > Len(ax_list)
    /\ ax_pc' = "done"
    /\ UNCHANGED <<ax_fns, ax_list, ax_reg, ax_stack, ax_i, ax_ran, ax_warn,
                   ctx_exits, ctx_gone, ctx_raised, ax_runs>>
    /\ UNCHANGED notAtexit

InitAtexit ==
    /\ MuxInit /\ VtyshParked /\ RouterParked /\ StartParked /\ StopParked
    /\ LifecycleParked
    /\ DoStartParked
    /\ TicksParked
    /\ LeaksParked
    /\ AtexitParked
    /\ NetParked
    /\ NsParked
    /\ CaretakerParked
    /\ ConnParked
    /\ LoopParked
    /\ EnvParked
    /\ MuxParked
    /\ ReadParked
    /\ RunParked
    /\ NsStartParked
    /\ ScanParked

NextAtexit ==
    \/ \E exc \in Outcomes : AxRegister(exc)
    \/ \E exc \in Outcomes, eoe \in BOOLEAN, weak \in BOOLEAN :
           CtxEnter(exc, eoe, weak)
    \/ \E bodyRaised \in BOOLEAN : CtxExit(bodyRaised)
    \/ \E fn \in 1..MaxClosures : CtxCollected(fn)
    \/ DoAtexit
    \/ AxCall
    \/ AxReturn

SpecAtexit == InitAtexit /\ [][NextAtexit]_vars

(***************************************************************************)
(* Claims about the Timeline.                                              *)
(***************************************************************************)
\* C1: after any sequence of dispatch calls, history is the stable sort by
\* ts = (timestamp, sequence) of all elements dispatched so far: every
\* dispatched element is present exactly once, keys are non-decreasing, and
\* elements with equal keys are in arrival order.
C1_HistoryIsStableSort ==
    /\ Len(history) = Len(arrivals)
    /\ \A k \in 1..Len(arrivals) :
           Cardinality({i \in 1..Len(history) : history[i] = arrivals[k]}) = 1
    /\ \A i \in 1..(Len(history) - 1) :
           \/ history[i].ts[1] < history[i + 1].ts[1]
           \/ /\ history[i].ts[1] = history[i + 1].ts[1]
              /\ history[i].ts[2] <= history[i + 1].ts[2]
    /\ \A i, j \in 1..Len(history) :
           (i < j /\ history[i].ts = history[j].ts)
               => history[i].id < history[j].id

\* C1 witness: elements arrived out of order and with equal keys, over
\* several dispatch calls of more than one element
C1_Witness ==
    /\ Len(history) = MaxEvents
    /\ \E i, j \in 1..Len(arrivals) :
           i < j /\ TupleLt(arrivals[j].ts, arrivals[i].ts)
    /\ \E i, j \in 1..Len(arrivals) :
           i < j /\ arrivals[i].ts = arrivals[j].ts
    /\ history # arrivals

\* what an EventIter has been handed, in the order __anext__ returns it
Observed(it) == it.seen \o it.pending \o Flatten(it.queue)

\* the elements of hist with timestamp >= t, in the order of hist
FromCutoff(hist, t) ==
    LET AtOrAfter(e) == e.ts[1] >= t IN SelectSeq(hist, AtOrAfter)

\* the elements dispatched while the EventIter was registered
LiveFor(it) ==
    SubSeq(arrivals, it.arrivedAtAdd + 1,
           IF it.state = "exited" THEN it.arrivedAtRemove ELSE Len(arrivals))

\* C2: a subscriber attached by dispatch_add with backfill cutoff T is handed
\* every element that was in the history at attach time with timestamp >= T,
\* in history order, immediately followed by every element dispatched while
\* it is registered, each exactly once and none skipped; what __anext__ has
\* returned is a prefix of that sequence.
C2_BackfillThenLive ==
    \A i \in Iters :
        (iters[i].state \in {"entered", "exited"} /\ iters[i].backfill # None)
            => Observed(iters[i]) =
                   FromCutoff(iters[i].histAtAdd, iters[i].backfill[1])
                       \o LiveFor(iters[i])

\* C2 witness: the history held timestamps 1, 2, 3 at attach time, T = 2, and
\* __anext__ has returned the elements at 2 and 3 and then a live element
C2_Witness ==
    \E i \in Iters :
        /\ iters[i].backfill = Some(2)
        /\ Len(iters[i].histAtAdd) = 3
        /\ \A k \in 1..3 : iters[i].histAtAdd[k].ts[1] = k
        /\ Len(iters[i].seen) = 3
        /\ iters[i].seen[1] = iters[i].histAtAdd[2]
        /\ iters[i].seen[2] = iters[i].histAtAdd[3]
        /\ iters[i].seen[3].id > iters[i].arrivedAtAdd

(***************************************************************************)
(* Claims about the control-socket protocol.                               *)
(***************************************************************************)
\* the buffer R ends in three NUL bytes followed by the byte c
EndsInTerminator(R, c) ==
    /\ Len(R) >= 4
    /\ R[Len(R) - 3] = 0 /\ R[Len(R) - 2] = 0 /\ R[Len(R) - 1] = 0
    /\ R[Len(R)] = c

\* t without every "\r" that is directly followed by "\n"
WithoutCRBeforeLF(t) ==
    LET Kept == {k \in 1..Len(t) :
                     ~(t[k] = 13 /\ k < Len(t) /\ t[k + 1] = 10)}
        Rank(k) == Cardinality({j \in Kept : j <= k})
    IN  [r \in 1..Cardinality(Kept) |->
             t[CHOOSE k \in Kept : Rank(k) = r]]

\* the last response has been read and its event made: cur_out still holds
\* the bytes of that response
ResponseRead == v_pc \in {"loop", "return", "done"} /\ output # <<>>

\* C3: when the bytes R read for a command end in three NUL bytes followed
\* by a byte c, the event reports return code c and, as text, the bytes of R
\* before that 4-byte suffix, decoded as UTF-8 with every \r\n replaced by \n.
C3_ResponseParsed ==
    ResponseRead =>
        LET R == cur_out
            ev == output[Len(output)]
            body == SubSeq(R, 1, Len(R) - 4)
        IN  /\ EndsInTerminator(R, ev.retcode)
            /\ Encode(Decode(body).str) = body
            /\ ev.text = WithoutCRBeforeLF(Decode(body).str)
            /\ retcode = ev.retcode

\* C3 witness: "show version" was answered by "\r\n" and four NUL bytes,
\* which is reported as return code 0 with text "\n"
C3_Witness ==
    /\ v_pc = "done"
    /\ v_input = StrInput(ShowVersion)
    /\ cur_out = <<13, 10, 0, 0, 0, 0>>
    /\ v_result = Some(<<daemonPid,
                         <<TimedVtysh(ShowVersion, 0, <<10>>, TRUE)>>, 0>>)

\* the commands of the batch as the caller gave them: the non-blank lines of
\* a string, the elements of a list
GivenCmds ==
    IF v_input.isStr
    THEN LET lines == SplitLines(v_input.text)
             NotBlank(l) == Strip(l) # <<>>
         IN  SelectSeq(lines, NotBlank)
    ELSE v_input.list

\* C4: for every command of a batch, given as a string or as a list, the
\* bytes written to the socket are the command text with leading and
\* trailing whitespace stripped, UTF-8 encoded, followed by one NUL byte.
C4_SentStripped ==
    \A k \in 1..Len(sends) :
        sends[k] = Encode(Strip(GivenCmds[k])) \o <<0>>

\* C4 restricted to batches given as a string, where the code strips
C4_StrSentStripped == v_input.isStr => C4_SentStripped

\* C4 witness: a command given with whitespace around it in a string batch
\* has been written
C4_StrWitness ==
    /\ v_input.isStr
    /\ sends # <<>>
    /\ GivenCmds[1] # Strip(GivenCmds[1])

\* C5: command k+1 is written only after the response to command k has been
\* read with return code 0; after a non-zero return code nothing more is
\* written; the batch returns the last return code with the events of the
\* responses read so far, in command order.
C5_OneAtATime ==
    /\ Len(sends) <= Len(output) + 1
    /\ Len(output) <= Len(sends)
    /\ \A k \in 1..Len(output) :
           /\ output[k].cmd = BatchOf(v_input)[k]
           /\ sends[k] = Encode(output[k].cmd) \o <<0>>
           /\ output[k].retcode # 0 => (Len(sends) = k /\ Len(output) = k)
    /\ v_pc = "done" =>
           /\ v_result = Some(<<v_pid, output,
                                IF output = <<>> THEN 0
                                ELSE output[Len(output)].retcode>>)
           /\ \/ Len(output) = Len(BatchOf(v_input))
              \/ output[Len(output)].retcode # 0

\* C5 witness: a batch of two commands stopped after the first, which was
\* answered with a non-zero return code
C5_Witness ==
    /\ v_pc = "done"
    /\ Len(BatchOf(v_input)) = 2
    /\ Len(sends) = 1
    /\ v_result = Some(<<v_pid, output, 1>>)

\* C6: in a batch of one or more commands that ends without raising, exactly
\* one emitted event has last = TRUE and it is the final one; no event
\* emitted before the final one has last = TRUE.
C6_ExactlyOneLast ==
    /\ emitted = output
    /\ \A k \in 1..Len(emitted) :
           emitted[k].last =>
               (k = Len(emitted) /\ (v_pc \in {"return", "done"} \/ cmds = <<>>))
    /\ (v_pc = "done" /\ BatchOf(v_input) # <<>>) =>
           /\ emitted # <<>>
           /\ Cardinality({k \in 1..Len(emitted) : emitted[k].last}) = 1
           /\ emitted[Len(emitted)].last

\* C6 witness: a batch of two commands ran to its end, and one stopped early
C6_Witness ==
    /\ v_pc = "done"
    /\ Len(BatchOf(v_input)) = 2
    /\ Len(emitted) = 2
    /\ ~emitted[1].last

(***************************************************************************)
(* Claims about start_daemon.                                              *)
(***************************************************************************)
\* the call raised TopotatoDaemonStartFail out of the connection loop
StartFailAfterPolling ==
    /\ sd_pc = "raised"
    /\ sd_exc.type = "TopotatoDaemonStartFail"
    /\ attempts > 0

\* the exception names the daemon, the router and the command line that
\* check_call ran
CarriesCmdline ==
    /\ launched # <<>>
    /\ sd_exc = TopotatoDaemonStartFail(sd_daemon,
                                        ShlexJoin(launched[Len(launched)]))

\* C7, as the code has it: start_daemon makes at most 31 connection attempts
\* (a first one and 30 retries, each retry after one sleep), it retries only
\* after ConnectionRefusedError or FileNotFoundError, and when the 31st
\* attempt fails in that way it raises TopotatoDaemonStartFail with the
\* daemon, the router and the command line that was launched.
C7_AtMost31Attempts ==
    /\ attempts <= MaxRetry + 1
    /\ naps <= MaxRetry
    /\ (sd_pc = "poll" /\ attempts > 0) =>
           (v_pc = "raised" /\ v_exc \in Retryable /\ naps = attempts)
    /\ StartFailAfterPolling =>
           /\ attempts = MaxRetry + 1
           /\ v_exc \in Retryable
           /\ CarriesCmdline
    /\ (attempts = MaxRetry + 1 /\ sd_pc # "wait" /\ v_pc = "raised"
            /\ v_exc \in Retryable) => StartFailAfterPolling

\* the 31st attempt has failed and the call raised TopotatoDaemonStartFail
C7_Witness ==
    /\ StartFailAfterPolling
    /\ attempts = MaxRetry + 1
    /\ naps = MaxRetry
    /\ v_exc = "ConnectionRefusedError"

\* C7, as stated: at most 30 connection attempts, and the exception is raised
\* on the 30th failure.
C7_AtMost30Attempts ==
    /\ attempts <= MaxRetry
    /\ StartFailAfterPolling => attempts = MaxRetry

\* C8, as stated: a start_daemon call that has ended has either succeeded
\* with the daemon's pid recorded in pids, or raised TopotatoDaemonStartFail
\* carrying the command line.
C8_EndsInSuccessOrStartFail ==
    sd_pc \in {"done", "raised"} =>
        \/ sd_pc = "done" /\ sd_daemon \in DOMAIN pids
        \/ /\ sd_pc = "raised"
           /\ sd_exc.type = "TopotatoDaemonStartFail"
           /\ CarriesCmdline

(***************************************************************************)
(* Claims about stop_daemon.                                               *)
(***************************************************************************)
\* C9, as the code has it: when the first SIGTERM of stop_daemon finds no
\* process, the call raises TopotatoDaemonCrash naming the daemon and the
\* router, with the daemon already removed from pids and no signal sent; the
\* call returns without a signal and without an exception when the daemon is
\* not in pids.
C9_GoneRaisesCrash ==
    /\ firstKill = "gone" =>
           /\ st_pc = "raised"
           /\ st_exc = TopotatoDaemonCrash(st_daemon)
           /\ st_daemon \notin DOMAIN pids
           /\ polls = <<>>
           /\ Len(signals) = sigsBefore
    /\ (ncalls > 0 /\ firstKill = "none") =>
           /\ st_pc = "done"
           /\ st_exc = NoException
           /\ st_daemon \notin DOMAIN pids
           /\ Len(signals) = sigsBefore

\* a call found the daemon in pids and its process gone
C9_Witness ==
    /\ firstKill = "gone"
    /\ st_exc.type = "TopotatoDaemonCrash"
    /\ procs[st_daemon] = "gone"

\* C9, as stated: when the first SIGTERM finds no process, the call returns
\* successfully without raising.
C9_GoneReturns ==
    firstKill = "gone" => (st_pc = "done" /\ st_exc = NoException)

\* the signals the current call has sent
SentByCall == SubSeq(signals, sigsBefore + 1, Len(signals))

\* the state of a call whose first SIGTERM found the process
StopPolling ==
    firstKill = "found" =>
        /\ Len(polls) <= 5
        /\ \A k \in 1..Len(polls) :
               /\ polls[k].delay = (k - 1) * 100
               /\ k < Len(polls) => polls[k].found
        /\ st_pc = "sleep" =>
               /\ Len(polls) < 5
               /\ \A k \in 1..Len(polls) : polls[k].found
        /\ st_pc = "done" <=>
               (polls # <<>> /\ ~polls[Len(polls)].found)
        /\ st_pc = "raised" <=> (Len(polls) = 5 /\ polls[5].found)
        /\ st_pc = "raised" => st_exc = TopotatoDaemonStopFail(st_daemon)
        /\ st_pc # "raised" => st_exc = NoException
        /\ Len(SentByCall) =
               1 + Cardinality({k \in 1..Len(polls) : polls[k].found})
        /\ \A k \in 1..Len(SentByCall) :
               SentByCall[k] = Killed(st_pid, "SIGTERM")

\* C10: after a first SIGTERM that found the process, stop_daemon polls at
\* most 5 times, sleeping 0, 0.1, 0.2, 0.3 and 0.4 s before the polls and
\* sending SIGTERM again at each; it returns at the first poll that finds the
\* process gone, and raises TopotatoDaemonStopFail naming the daemon and the
\* router after the 5th poll still found it; it sends no signal but SIGTERM,
\* and the call always ends.
C10_StopPolls ==
    /\ [](StopPolling /\ \A k \in 1..Len(signals) : signals[k].sig = "SIGTERM")
    /\ (st_pc = "sleep") ~> (st_pc \in {"done", "raised"})

\* the process outlived the 5th poll and the call raised
C10_Witness ==
    /\ st_pc = "raised"
    /\ st_exc.type = "TopotatoDaemonStopFail"
    /\ Len(polls) = 5
    /\ polls[5].delay = 400

(***************************************************************************)
(* Claims about the daemons of a router over a sequence of calls.          *)
(***************************************************************************)
\* the live processes of daemon d
LiveCount(d) == (IF procs[d] = "running" THEN 1 ELSE 0) + orphans[d]

\* C11, as stated: whenever no supervisor call is in progress, every daemon
\* name has at most one live process, and a daemon is a key of pids exactly
\* if it was started successfully and has not since been stopped or found
\* gone.
C11_PidsIffBelievedAlive ==
    Idle => \A d \in Daemons :
                /\ LiveCount(d) <= 1
                /\ d \in DOMAIN pids <=> d \in believed

\* C12, as stated: when do_start has gone through every router, the list
\* `failed` holds every wanted daemon of the build, of every router, whose
\* control socket refused the connection, was missing, or answered with a
\* return code other than 0, and do_start raises exactly when that list is
\* not empty.
C12_EveryUnhealthyReported ==
    (ds_pc \in {"started", "raised"} /\ ds_i > Len(Routers)) =>
        /\ {failed[k] : k \in 1..Len(failed)} =
               {<<Routers[i], d>> : i \in 1..Len(Routers), d \in Daemons} \cap
               {p \in {Routers[i] : i \in 1..Len(Routers)} \X Daemons :
                    /\ WantDaemon(p[1], p[2])
                    /\ p[2] \in frr_daemons
                    /\ health[p[1]][p[2]] \in {"error", "refusing", "missing"}}
        /\ ds_pc = "raised" <=> Len(failed) > 0

Deadline == started_ts + MaxwaitOr0(tk_maxwait)

\* the polling loops that have come to an end
PollEnded == tk_pc \in {"passed", "failed", "raised"}

\* C14: the first tick a polling loop is given is the immediate one, yielded
\* before ticks() has read the anchor or set a deadline and due at once, so
\* every polling loop that has got past its first tick has made at least one
\* attempt, whatever the delay, the maxwait, the anchor and the clock.
C14_AtLeastOneAttempt ==
    /\ tk_pc \in {"resume", "passed", "failed", "raised", "hung"} =>
           tk_tries >= 1
    /\ tk_prev.pc # "idle" => tk_prev.tries >= 1
    /\ tk_pc # "idle" => tk_ticks[1] = NegInf
    /\ (tk_pc = "yielded" /\ tk_tries = 0) =>
           /\ tk_ticks = <<NegInf>>
           /\ tk_deadline = None /\ nexttick = None
           /\ clock >= tk_ticks[1]

\* C14 witness: a polling loop begun after anchor + maxwait made its one
\* attempt and failed, and so did one with maxwait None
C14_Witness ==
    /\ tk_pc = "failed" /\ tk_tries = 1
    /\ tk_maxwait = Some(1) /\ tk_now > Deadline
    /\ tk_prev.pc = "failed" /\ tk_prev.maxwait = None /\ tk_prev.tries = 1

\* the timed ticks of the current loop are grid points anchor + k * delay,
\* k >= 1, before anchor + maxwait and not before the time polling began,
\* the deadline is anchor + maxwait, and the ticks are strictly increasing
TicksOnGrid ==
    /\ tk_deadline # None => tk_deadline[1] = Deadline
    /\ \A i \in 2..Len(tk_ticks) :
           /\ \E k \in 1..MaxClock : tk_ticks[i] = started_ts + k * tk_delay[1]
           /\ tk_ticks[i] < Deadline
           /\ tk_ticks[i] >= tk_now
    /\ \A i \in 1..Len(tk_ticks), j \in 1..Len(tk_ticks) :
           i < j => tk_ticks[i] < tk_ticks[j]

Delta == FDDelta(snaps[1], snaps[Len(snaps)])

TableBefore == tables[1]
TableAfter == tables[Len(tables)]

\* C17: whatever open, pipe, close, dup and dup2 operations were performed
\* between two snapshots, opened is the set of descriptors live only at the
\* second, closed the set live only at the first, and changed the set live
\* at both whose (type, device, inode) differs.
C17_DeltaReflectsTable ==
    Len(snaps) >= 2 =>
        /\ Delta.opened = LiveFds(TableAfter) \ LiveFds(TableBefore)
        /\ Delta.closed = LiveFds(TableBefore) \ LiveFds(TableAfter)
        /\ Delta.changed =
               {fd \in LiveFds(TableBefore) \cap LiveFds(TableAfter) :
                    \E i \in 1..3 : TableBefore[fd][i] # TableAfter[fd][i]}

\* C17 witness: between the snapshots a pipe was opened, whose two ends are
\* in opened, a descriptor was duplicated with dup2 onto a live descriptor
\* with the same inode number, which is in changed, and a descriptor was
\* closed, which is in closed
C17_Witness ==
    /\ Len(snaps) = 2
    /\ fd_ops = {"pipe", "dup2", "close"}
    /\ Cardinality(Delta.opened) = 2
    /\ \A fd \in Delta.opened : TableAfter[fd] = PipeKey
    /\ \E fd \in Delta.changed :
           /\ TableAfter[fd] = PipeKey
           /\ TableBefore[fd][3] = PipeKey[3]
    /\ Delta.closed # {}

\* C18: opened, closed and changed are pairwise disjoint, the length of the
\* delta is the sum of their sizes, which is the number of descriptors on
\* which the two snapshots differ, it is 0 exactly when the snapshots are
\* equal, and it is 0 when no operation was performed between them.
C18_DeltaPartition ==
    Len(snaps) >= 2 =>
        /\ Delta.opened \cap Delta.closed = {}
        /\ Delta.opened \cap Delta.changed = {}
        /\ Delta.closed \cap Delta.changed = {}
        /\ DeltaLen(Delta) =
               Cardinality(Delta.opened \cup Delta.closed \cup Delta.changed)
        /\ DeltaLen(Delta) =
               Cardinality({fd \in 0..MaxFd :
                               \/ Live(TableBefore, fd) # Live(TableAfter, fd)
                               \/ TableBefore[fd] # TableAfter[fd]})
        /\ DeltaLen(Delta) = 0 <=> snaps[1] = snaps[Len(snaps)]
        /\ fd_ops = {} => DeltaLen(Delta) = 0

\* C18 witness: a delta of length 3 with one descriptor opened, one closed
\* and one changed; the witness of the empty delta is C18_EmptyWitness
C18_Witness ==
    /\ Len(snaps) = 2
    /\ Cardinality(Delta.opened) = 1
    /\ Cardinality(Delta.closed) = 1
    /\ Cardinality(Delta.changed) = 1
    /\ DeltaLen(Delta) = 3

\* two snapshots with no operation between them, and an empty delta
C18_EmptyWitness ==
    /\ Len(snaps) = 2 /\ fd_ops = {} /\ LiveFds(TableAfter) # {}
    /\ DeltaLen(Delta) = 0


(***************************************************************************)
(* Claims about the cleanup closures.                                      *)
(***************************************************************************)
\* a sequence in reverse
Reversed(seq) == [k \in 1..Len(seq) |-> seq[Len(seq) + 1 - k]]

\* the closures called by _do_atexit so far, in the order of the calls
RanFns == [k \in 1..Len(ax_ran) |-> ax_ran[k].fn]

\* C19: the closures _do_atexit has called so far are the first of the
\* registered closures in the reverse of the order of the atexit() calls,
\* whether they are plain closures or wrappers of ctx_until_stop, and when
\* _do_atexit has returned it has called them all.
C19_ReverseRegistrationOrder ==
    /\ ax_pc \in {"running", "done", "raised"} =>
           RanFns = SubSeq(Reversed(ax_reg), 1, Len(ax_ran))
    /\ ax_pc = "done" => RanFns = Reversed(ax_reg)

\* C19 witness: a wrapper made first and registered second, at the end of
\* its with block, between two plain closures: _do_atexit called the third
\* closure, then the wrapper, then the closure registered inside the block
C19_Witness ==
    /\ ax_pc = "done"
    /\ Len(ax_fns) = 3 /\ ax_fns[1].kind = "ctx"
    /\ ax_reg = <<2, 1, 3>>
    /\ RanFns = <<3, 1, 2>>

SwitchNs == "switch-ns"

\* the most test items run between startup and shutdown
MaxItems == 1

\* point-to-point links (a, b, parallel_num) and LANs (name, ifaces)
Link12 == [a |-> "r1", b |-> "r2", parallel_num |-> 0]
Link12b == [a |-> "r1", b |-> "r2", parallel_num |-> 1]
Lan1 == [name |-> "lan1", ifaces |-> <<"r1", "r2">>]

Topologies ==
    { [links |-> <<Link12>>, lans |-> <<>>],
      [links |-> <<>>, lans |-> <<Lan1>>],
      [links |-> <<Link12>>, lans |-> <<Lan1>>],
      [links |-> <<Link12, Link12b>>, lans |-> <<>>] }

\* brname of a link: the two endpoint names, and the parallel number when
\* it is not 0
BrName(link) ==
    IF link.parallel_num # 0
    THEN <<link.a, link.b, link.parallel_num>>
    ELSE <<link.a, link.b>>

\* the hosts in the order prepare() creates them and start() starts them
StartHostsRoutersFirst == Routers \o <<SwitchNs>>

StartHosts == <<SwitchNs>> \o Routers

\* the routers in the order stop() walks them
StopRoutersReversed == [k \in 1..Len(Routers) |-> Routers[Len(Routers) + 1 - k]]

StopRouters == Routers

NetEvent(op, host, br) == [op |-> op, host |-> host, br |-> br]

\* the loops of start(), in order, each with the length of what it walks
Phases == <<"start_hosts", "links", "lans", "scapy", "start_run", "post">>

PhaseLen(k, bridges) ==
    CASE Phases[k] = "start_hosts" -> Len(StartHosts)
      [] Phases[k] = "links" -> Len(topo.links)
      [] Phases[k] = "lans" -> Len(topo.lans)
      [] Phases[k] = "scapy" -> Len(bridges)
      [] Phases[k] = "start_run" -> Len(StartHosts)
      [] OTHER -> 1

PhaseOf(pc) == CHOOSE k \in 1..Len(Phases) : Phases[k] = pc

\* the next iteration after iteration i of loop k: the loops that walk
\* nothing are passed over
RECURSIVE StepTo(_, _, _)
StepTo(k, i, bridges) ==
    IF i <= PhaseLen(k, bridges) THEN <<Phases[k], i>>
    ELSE StepTo(k + 1, 1, bridges)

\* start() goes on after one iteration
NetGoOn(bridges) ==
    LET nxt == StepTo(PhaseOf(n_pc), n_i + 1, bridges)
    IN /\ n_pc' = nxt[1]
       /\ n_i' = nxt[2]
       /\ UNCHANGED <<skipall_node, n_exc>>

\* an exception leaves do_start: _SkipMgr of InstanceStartup records the
\* item in skipall_node (cascade_failures is SkipThisAndLaterHard)
StartupFailed(exc) ==
    /\ n_pc' = "startup_failed"
    /\ n_i' = 0
    /\ n_exc' = exc
    /\ skipall_node' = "InstanceStartup"

\* InstanceStartup.runtest: do_start calls netinst.start()
NetStartBegin ==
    /\ n_pc = "idle"
    /\ n_pc' = "start_hosts"
    /\ n_i' = 1
    /\ UNCHANGED <<topo, n_log, n_bridges, n_scapys, n_atexit, skipall_node,
                   n_exc, n_items>>
    /\ UNCHANGED notNet

\* switch_ns.start() and rns.start(): the namespace is started, then the
\* host's setup commands run and may fail
NetStartHost(ok) ==
    /\ n_pc = "start_hosts"
    /\ n_log' = Append(n_log, NetEvent("start", StartHosts[n_i], <<>>))
    /\ IF ok THEN NetGoOn(n_bridges) ELSE StartupFailed("CalledProcessError")
    /\ UNCHANGED <<topo, n_bridges, n_scapys, n_atexit, n_items>>
    /\ UNCHANGED notNet

\* one point-to-point link: the bridge is recorded and created, then the
\* interface of each end is attached; failAt is the check_call that fails
NetLink(failAt) ==
    /\ n_pc = "links"
    /\ LET link == topo.links[n_i]
           br == BrName(link)
           evs == <<NetEvent("bridge", SwitchNs, br),
                    NetEvent("attach", link.a, br),
                    NetEvent("attach", link.b, br)>>
           done == IF failAt = 0 THEN 3 ELSE failAt - 1
       IN /\ n_bridges' = Append(n_bridges, br)
          /\ n_log' = n_log \o SubSeq(evs, 1, done)
          /\ IF failAt = 0 THEN NetGoOn(n_bridges')
             ELSE StartupFailed("CalledProcessError")
    /\ UNCHANGED <<topo, n_scapys, n_atexit, n_items>>
    /\ UNCHANGED notNet

\* one LAN: the bridge is recorded and created, then the interface of
\* every member is attached
NetLan(failAt) ==
    /\ n_pc = "lans"
    /\ LET lan == topo.lans[n_i]
           br == <<lan.name>>
           evs == <<NetEvent("bridge", SwitchNs, br)>> \o
                  [k \in 1..Len(lan.ifaces) |->
                       NetEvent("attach", lan.ifaces[k], br)]
           done == IF failAt = 0 THEN Len(evs) ELSE failAt - 1
       IN /\ failAt <= Len(evs)
          /\ n_bridges' = Append(n_bridges, br)
          /\ n_log' = n_log \o SubSeq(evs, 1, done)
          /\ IF failAt = 0 THEN NetGoOn(n_bridges')
             ELSE StartupFailed("CalledProcessError")
    /\ UNCHANGED <<topo, n_scapys, n_atexit, n_items>>
    /\ UNCHANGED notNet

\* one bridge's capture socket: opened inside the switch namespace under
\* ctx_until_stop, which puts its closing on the switch host's atexit list
NetScapy(ok) ==
    /\ n_pc = "scapy"
    /\ LET br == n_bridges[n_i]
       IN IF ok
          THEN /\ n_atexit' = <<br>> \o n_atexit
               /\ n_scapys' = n_scapys \cup {br}
               /\ NetGoOn(n_bridges)
          ELSE /\ UNCHANGED <<n_atexit, n_scapys>>
               /\ StartupFailed("OSError")
    /\ UNCHANGED <<topo, n_log, n_bridges, n_items>>
    /\ UNCHANGED notNet

\* switch_ns.start_run() and rns.start_run(): a router starts its daemons,
\* and start_daemon may raise
NetStartRun(outcome) ==
    /\ n_pc = "start_run"
    /\ outcome # "ok" => StartHosts[n_i] # SwitchNs
    /\ n_log' = Append(n_log, NetEvent("start_run", StartHosts[n_i], <<>>))
    /\ IF outcome = "ok" THEN NetGoOn(n_bridges) ELSE StartupFailed(outcome)
    /\ UNCHANGED <<topo, n_bridges, n_scapys, n_atexit, n_items>>
    /\ UNCHANGED notNet

\* the rest of do_start: start_post on every router, and
\* TopotatoDaemonCrash when a daemon failed
NetStartPost(outcome) ==
    /\ n_pc = "post"
    /\ IF outcome = "ok"
       THEN /\ n_pc' = "running"
            /\ n_i' = 0
            /\ UNCHANGED <<skipall_node, n_exc>>
       ELSE StartupFailed(outcome)
    /\ UNCHANGED <<topo, n_log, n_bridges, n_scapys, n_atexit, n_items>>
    /\ UNCHANGED notNet

\* a test item between startup and shutdown; when it raises, _SkipMgr
\* records it (cascade_failures of a plain item is SkipThisAndLater)
NetTestItem(outcome) ==
    /\ n_pc = "running"
    /\ n_items < MaxItems
    /\ skipall_node = "none"
    /\ n_items' = n_items + 1
    /\ skipall_node' = IF outcome = "ok" THEN "none" ELSE "item"
    /\ UNCHANGED <<topo, n_pc, n_i, n_log, n_bridges, n_scapys, n_atexit,
                   n_exc>>
    /\ UNCHANGED notNet

\* InstanceShutdown.setup and __call__: skipped when startup failed,
\* otherwise do_stop calls netinst.stop()
NetShutdown ==
    /\ n_pc \in {"running", "startup_failed"}
    /\ IF skipall_node = "InstanceStartup"
       THEN n_pc' = "skipped" /\ n_i' = 0
       ELSE n_pc' = "end_prep" /\ n_i' = 1
    /\ UNCHANGED <<topo, n_log, n_bridges, n_scapys, n_atexit, skipall_node,
                   n_exc, n_items>>
    /\ UNCHANGED notNet

\* first loop of stop(): rns.end_prep()
NetEndPrep ==
    /\ n_pc = "end_prep"
    /\ n_log' = Append(n_log, NetEvent("end_prep", StopRouters[n_i], <<>>))
    /\ IF n_i < Len(StopRouters)
       THEN n_i' = n_i + 1 /\ UNCHANGED n_pc
       ELSE n_i' = 1 /\ n_pc' = "end"
    /\ UNCHANGED <<topo, n_bridges, n_scapys, n_atexit, skipall_node, n_exc,
                   n_items>>
    /\ UNCHANGED notNet

\* second loop of stop(): rns._do_atexit() and rns.end()
NetEndRouter ==
    /\ n_pc = "end"
    /\ n_log' = n_log \o <<NetEvent("atexit", StopRouters[n_i], <<>>),
                           NetEvent("end", StopRouters[n_i], <<>>)>>
    /\ IF n_i < Len(StopRouters)
       THEN n_i' = n_i + 1 /\ UNCHANGED n_pc
       ELSE n_i' = 0 /\ n_pc' = "end_switch"
    /\ UNCHANGED <<topo, n_bridges, n_scapys, n_atexit, skipall_node, n_exc,
                   n_items>>
    /\ UNCHANGED notNet

\* the end of stop(): switch_ns._do_atexit(), which closes the capture
\* sockets, and switch_ns.end()
NetEndSwitch ==
    /\ n_pc = "end_switch"
    /\ n_log' = n_log \o <<NetEvent("atexit", SwitchNs, <<>>),
                           NetEvent("end", SwitchNs, <<>>)>>
    /\ n_atexit' = <<>>
    /\ n_pc' = "stopped"
    /\ UNCHANGED <<topo, n_i, n_bridges, n_scapys, skipall_node, n_exc,
                   n_items>>
    /\ UNCHANGED notNet

InitNet ==
    /\ MuxInit /\ VtyshParked /\ RouterParked /\ StartParked /\ StopParked
    /\ LifecycleParked
    /\ DoStartParked
    /\ TicksParked
    /\ LeaksParked
    /\ AtexitParked
    /\ NsParked
    /\ CaretakerParked
    /\ ConnParked
    /\ LoopParked
    /\ EnvParked
    /\ MuxParked
    /\ ReadParked
    /\ RunParked
    /\ NsStartParked
    /\ ScanParked
    /\ topo \in Topologies
    /\ n_pc = "idle"
    /\ n_i = 0
    /\ n_log = <<>>
    /\ n_bridges = <<>>
    /\ n_scapys = {}
    /\ n_atexit = <<>>
    /\ skipall_node = "none"
    /\ n_exc = NoExc
    /\ n_items = 0

NextNet ==
    \/ NetStartBegin
    \/ \E ok \in BOOLEAN : NetStartHost(ok)
    \/ \E failAt \in 0..3 : NetLink(failAt)
    \/ \E failAt \in 0..3 : NetLan(failAt)
    \/ \E ok \in BOOLEAN : NetScapy(ok)
    \/ \E outcome \in {"ok", "TopotatoDaemonStartFail"} : NetStartRun(outcome)
    \/ \E outcome \in {"ok", "TopotatoDaemonCrash"} : NetStartPost(outcome)
    \/ \E outcome \in {"ok", "TopotatoDaemonCrash", "TopotatoDaemonStopFail"} :
           NetTestItem(outcome)
    \/ NetShutdown
    \/ NetEndPrep
    \/ NetEndRouter
    \/ NetEndSwitch

SpecNet == InitNet /\ [][NextNet]_vars

\* the daemon lifecycle errors: start failure, crash, stop failure
LifecycleErrors ==
    {"TopotatoDaemonStartFail", "TopotatoDaemonCrash", "TopotatoDaemonStopFail"}

\* the hosts whose namespace was started, and what was done to a host
NetStarted == {n_log[k].host : k \in {j \in 1..Len(n_log) : n_log[j].op = "start"}}

NetDone(op, host) ==
    \E k \in 1..Len(n_log) : n_log[k].op = op /\ n_log[k].host = host

NetFinished == n_pc \in {"stopped", "skipped"}

\* C21: a daemon lifecycle error raised for one router during network start
\* or stop does not prevent the cleanup: when the run is over, every host
\* that was started has had its atexit closures run and its namespace ended
C21_CleanupAlwaysRuns ==
    (NetFinished /\ n_exc \in LifecycleErrors \cup {NoExc}) =>
        \A h \in NetStarted : NetDone("atexit", h) /\ NetDone("end", h)

AllHosts == {StartHosts[k] : k \in 1..Len(StartHosts)}

\* C22: start() starts the switch host before any router, completes the
\* first-stage start of every host before start_run is called on any host,
\* and creates each bridge before any interface is attached to it
C22_StartOrder ==
    \A i \in 1..Len(n_log) :
        /\ (n_log[i].op = "start" /\ n_log[i].host # SwitchNs) =>
               \E j \in 1..(i - 1) :
                   n_log[j].op = "start" /\ n_log[j].host = SwitchNs
        /\ n_log[i].op = "start_run" =>
               \A h \in AllHosts :
                   \E j \in 1..(i - 1) :
                       n_log[j].op = "start" /\ n_log[j].host = h
        /\ n_log[i].op = "attach" =>
               \E j \in 1..(i - 1) :
                   n_log[j].op = "bridge" /\ n_log[j].br = n_log[i].br

\* C22 witness: a network with a link and a LAN is up: every host went
\* through both stages and both bridges have their interfaces attached
C22_Witness ==
    /\ n_pc = "running"
    /\ Len(topo.links) = 1 /\ Len(topo.lans) = 1
    /\ \A h \in AllHosts : NetDone("start", h) /\ NetDone("start_run", h)
    /\ Cardinality({k \in 1..Len(n_log) : n_log[k].op = "attach"}) = 4

\* the hosts in the order in which their namespaces were ended
EndOrder ==
    LET ends == SelectSeq(n_log, LAMBDA e : e.op = "end")
    IN [k \in 1..Len(ends) |-> ends[k].host]

StartedOrder ==
    LET starts == SelectSeq(n_log, LAMBDA e : e.op = "start")
    IN [k \in 1..Len(starts) |-> starts[k].host]

\* C23 as stated: stop() tears the hosts down in the reverse of the order in
\* which they were started
C23_ReverseOfStartOrder ==
    n_pc = "stopped" => EndOrder = Reversed(StartedOrder)

\* C23: stop() first calls end_prep on every router, then runs the atexit
\* closures of and ends each router in the order in which the routers were
\* started, and last runs the atexit closures of and ends the switch host,
\* which was started first
C23_RoutersInStartOrderSwitchLast ==
    /\ n_pc = "stopped" =>
           /\ EndOrder = SubSeq(StartedOrder, 2, Len(StartedOrder)) \o
                         <<StartedOrder[1]>>
           /\ StartedOrder[1] = SwitchNs
    /\ \A i \in 1..Len(n_log) :
           /\ n_log[i].op = "end" =>
                  /\ i > 1
                  /\ n_log[i - 1] = NetEvent("atexit", n_log[i].host, <<>>)
           /\ n_log[i].op = "atexit" =>
                  \A r \in AllHosts \ {SwitchNs} :
                      \E j \in 1..(i - 1) :
                          n_log[j] = NetEvent("end_prep", r, <<>>)
           /\ n_log[i].op = "end_prep" => n_log[i].host # SwitchNs

\* C23 witness: the network was started and stopped, and r1 was ended
\* before r2
C23_Witness ==
    /\ n_pc = "stopped"
    /\ StartedOrder = <<SwitchNs, "r1", "r2">>
    /\ EndOrder = <<"r1", "r2", SwitchNs>>

(***************************************************************************)
(* Entering and leaving a namespace: LinuxNamespace.__enter__ / __exit__   *)
(***************************************************************************)

\* the deepest nesting of with-blocks
MaxNsNest == 2

Namespaces == {"nsA", "nsB"}

\* _orig_ns: the namespace types saved at import, in the order of the dict
NsTypes == <<"net", "mnt">>

\* the namespaces the process was in when the module was imported
OrigNs == [net |-> "orig", mnt |-> "orig"]

\* __exit__ that restores the network namespace only
RestoreNetOnly(cur) == [cur EXCEPT !.net = OrigNs.net]

\* __exit__: setns to every descriptor of _orig_ns
Restore(cur) == [t \in DOMAIN cur |-> OrigNs[t]]

\* a plausible slip: the workaround is tried for EINVAL of any namespace type
WorkaroundAppliesAnyType(nstype, res) == res = "EINVAL"

\* "if nstype == 'mnt' and e.errno == errno.EINVAL"
WorkaroundApplies(nstype, res) == nstype = "mnt" /\ res = "EINVAL"

\* one turn of "for nstype in _orig_ns" of __enter__, from the namespaces
\* cur: the system calls made, the namespaces afterwards, and whether the
\* loop goes on ("next"), __enter__ returns from inside the workaround
\* ("return") or raises LinuxNamespaceJoinFailed ("raise").  res is the
\* result of setns, unshareOk and retryOk those of the workaround's calls.
JoinStep(cur, ns, nstype, res, unshareOk, retryOk) ==
    IF res = "ok"
    THEN [cur |-> [cur EXCEPT ![nstype] = ns],
          calls |-> << <<"setns", nstype>> >>, then |-> "next"]
    ELSE IF ~WorkaroundApplies(nstype, res)
    THEN [cur |-> cur, calls |-> << <<"setns", nstype>> >>, then |-> "raise"]
    ELSE IF ~unshareOk
    THEN [cur |-> cur,
          calls |-> << <<"setns", nstype>>, <<"unshare", "mnt">> >>,
          then |-> "raise"]
    ELSE LET scratch == [cur EXCEPT !.mnt = "scratch"]
             calls == << <<"setns", nstype>>, <<"unshare", "mnt">>,
                         <<"setns", nstype>> >>
         IN  IF retryOk
             THEN [cur |-> [scratch EXCEPT ![nstype] = ns], calls |-> calls,
                   then |-> "return"]
             ELSE [cur |-> scratch, calls |-> calls, then |-> "raise"]

\* __enter__ on a running namespace: the namespaces the process ends in, whether
\* the workaround was used, whether LinuxNamespaceJoinFailed is raised, and
\* the system calls made.  netRes and mntRes are the results of the two
\* setns calls, unshareOk and retryOk those of the workaround's unshare and
\* second setns.
EnterNamespace(cur, ns, netRes, mntRes, unshareOk, retryOk) ==
    LET s1 == JoinStep(cur, ns, NsTypes[1], netRes, unshareOk, retryOk)
        s2 == JoinStep(s1.cur, ns, NsTypes[2], mntRes, unshareOk, retryOk)
    IN  IF s1.then # "next"
        THEN [cur |-> s1.cur, workaround |-> s1.then = "return",
              failed |-> s1.then = "raise", calls |-> s1.calls]
        ELSE [cur |-> s2.cur, workaround |-> s2.then = "return",
              failed |-> s2.then = "raise", calls |-> s1.calls \o s2.calls]

\* LinuxNamespace.start: the caretaker process is spawned
NsStart(ns) ==
    /\ ns \notin ns_proc
    /\ ns_exc = NoExc
    /\ ns_proc' = ns_proc \cup {ns}
    /\ UNCHANGED <<cur_ns, ns_stack, ns_after, ns_exc, ns_last>>
    /\ UNCHANGED notNs

\* "with ns:" calls __enter__
NsEnter(ns, netRes, mntRes, unshareOk, retryOk) ==
    /\ ns_exc = NoExc
    /\ Len(ns_stack) < MaxNsNest
    /\ ns_after' = None
    /\ IF ns \notin ns_proc
       THEN /\ ns_exc' = "ValueError"
            /\ ns_last' = Some([pre |-> cur_ns, net |-> netRes,
                                mnt |-> mntRes, unshare |-> unshareOk,
                                retry |-> retryOk, calls |-> <<>>,
                                post |-> cur_ns, raised |-> "ValueError"])
            /\ UNCHANGED <<cur_ns, ns_stack>>
       ELSE LET r == EnterNamespace(cur_ns, ns, netRes, mntRes, unshareOk, retryOk)
            IN /\ cur_ns' = r.cur
               /\ ns_last' = Some([pre |-> cur_ns, net |-> netRes,
                                   mnt |-> mntRes, unshare |-> unshareOk,
                                   retry |-> retryOk, calls |-> r.calls,
                                   post |-> r.cur,
                                   raised |-> IF r.failed
                                              THEN "LinuxNamespaceJoinFailed"
                                              ELSE NoExc])
               /\ IF r.failed
                  THEN /\ ns_exc' = "LinuxNamespaceJoinFailed"
                       /\ UNCHANGED ns_stack
                  ELSE /\ ns_stack' = Append(ns_stack,
                                [ns |-> ns, workaround |-> r.workaround])
                       /\ UNCHANGED ns_exc
    /\ UNCHANGED ns_proc
    /\ UNCHANGED notNs

\* the body of the innermost with-block raises
NsBodyRaises ==
    /\ ns_exc = NoExc
    /\ ns_stack # <<>>
    /\ ns_exc' = "RuntimeError"
    /\ UNCHANGED <<cur_ns, ns_proc, ns_stack, ns_after, ns_last>>
    /\ UNCHANGED notNs

\* the innermost with-block is left, normally or by an exception: __exit__
\* runs and returns None, so the exception goes on
NsExit ==
    /\ ns_stack # <<>>
    /\ cur_ns' = Restore(cur_ns)
    /\ ns_stack' = SubSeq(ns_stack, 1, Len(ns_stack) - 1)
    /\ ns_after' = Some([ns |-> ns_stack[Len(ns_stack)].ns,
                         workaround |-> ns_stack[Len(ns_stack)].workaround,
                         raised |-> ns_exc # NoExc])
    /\ UNCHANGED <<ns_proc, ns_exc, ns_last>>
    /\ UNCHANGED notNs

InitNs ==
    /\ MuxInit /\ VtyshParked /\ RouterParked /\ StartParked /\ StopParked
    /\ LifecycleParked
    /\ DoStartParked
    /\ TicksParked
    /\ LeaksParked
    /\ AtexitParked
    /\ NetParked
    /\ CaretakerParked
    /\ ConnParked
    /\ LoopParked
    /\ EnvParked
    /\ MuxParked
    /\ ReadParked
    /\ RunParked
    /\ NsStartParked
    /\ ScanParked
    /\ cur_ns = OrigNs
    /\ ns_proc = {}
    /\ ns_stack = <<>>
    /\ ns_after = None
    /\ ns_exc = NoExc
    /\ ns_last = None

NextNs ==
    \/ \E ns \in Namespaces : NsStart(ns)
    \/ \E ns \in Namespaces, netRes \in {"ok", "EINVAL", "err"},
          mntRes \in {"ok", "EINVAL", "err"}, unshareOk, retryOk \in BOOLEAN :
           NsEnter(ns, netRes, mntRes, unshareOk, retryOk)
    \/ NsBodyRaises
    \/ NsExit

SpecNs == InitNs /\ [][NextNs]_vars

\* C24: after a with-block on a namespace (__enter__ succeeded, then
\* __exit__), the harness process is in the network and mount namespaces it
\* had originally, also when the body raised and when the workaround was
\* used on entry
C24_BackInOriginalNamespaces ==
    ns_after # None => cur_ns = OrigNs

\* C24 witness: a block entered through the workaround whose body raised
\* has been left
C24_Witness ==
    /\ ns_after # None
    /\ ns_after[1].workaround /\ ns_after[1].raised
    /\ ns_stack = <<>>

(***************************************************************************)
(* The caretaker of a namespace (LinuxNamespace.inner, PID 1 of the inner  *)
(* namespace) and the parent's start() and end().                          *)
(***************************************************************************)

\* the most children of the caretaker that exit
MaxChildren == 3

\* the number of child status lines the caretaker's stdout pipe holds
\* before a write to it blocks (nothing reads the pipe after the first byte)
PipeLines == 2

\* the most end() calls on a namespace that was never started
MaxIdleEnds == 1

StatusLines == Len(SelectSeq(ct_out, LAMBDA w : w = "status"))

\* start(): the caretaker is spawned with pipes for stdin and stdout, and
\* the parent waits for one byte
CtSpawn ==
    /\ p_pc = "none"
    /\ p_pc' = "wait_ready"
    /\ ct_pc' = "setup"
    /\ UNCHANGED <<ct_out, ct_zombies, ct_sigchld, ct_fds, ct_stdin,
                   ct_children, p_ends>>
    /\ UNCHANGED notCaretaker

\* inner(): hostname, tmpfs mount, SIGCHLD pipe and handler, task file
\* lock; then the readiness byte is written.  A failing command ends the
\* caretaker before it wrote anything.
CtSetup(ok) ==
    /\ ct_pc = "setup"
    /\ IF ok
       THEN ct_pc' = "select" /\ ct_out' = Append(ct_out, "ready")
       ELSE ct_pc' = "exited" /\ UNCHANGED ct_out
    /\ UNCHANGED <<ct_zombies, ct_sigchld, ct_fds, ct_stdin, ct_children,
                   p_pc, p_ends>>
    /\ UNCHANGED notCaretaker

\* start() goes on: read(1) returns with the byte or at end of file, and
\* find_child looks for the caretaker
ParentReady ==
    /\ p_pc = "wait_ready"
    /\ ct_pc # "setup"
    /\ p_pc' = IF ct_pc = "exited" THEN "start_failed" ELSE "running"
    /\ UNCHANGED <<ct_pc, ct_out, ct_zombies, ct_sigchld, ct_fds, ct_stdin,
                   ct_children, p_ends>>
    /\ UNCHANGED notCaretaker

\* a process of the namespace whose parent is the caretaker exits: SIGCHLD,
\* and the handler writes a byte to the SIGCHLD pipe
ChildExits ==
    /\ ct_pc \in {"select", "handle", "blocked"}
    /\ p_pc \in {"running", "end_wait"}
    /\ ct_children < MaxChildren
    /\ ct_children' = ct_children + 1
    /\ ct_zombies' = ct_zombies + 1
    /\ ct_sigchld' = TRUE
    /\ UNCHANGED <<ct_pc, ct_out, ct_fds, ct_stdin, p_pc, p_ends>>
    /\ UNCHANGED notCaretaker

\* sel.select() returns: with the SIGCHLD pipe readable handle_sigchld
\* starts by draining it; with stdin alone the loop is left and the
\* caretaker exits
CtSelect ==
    /\ ct_pc = "select"
    /\ ct_sigchld \/ ct_stdin = "closed"
    /\ LET fds == (IF ct_sigchld THEN {"chld_rd"} ELSE {}) \cup
                  (IF ct_stdin = "closed" THEN {"stdin"} ELSE {})
       IN /\ ct_fds' = fds
          /\ ct_pc' = IF "chld_rd" \in fds THEN "handle" ELSE "exited"
    /\ ct_sigchld' = FALSE
    /\ UNCHANGED <<ct_out, ct_zombies, ct_stdin, ct_children, p_pc, p_ends>>
    /\ UNCHANGED notCaretaker

\* one round of the wait3 loop of handle_sigchld: a reaped child has its
\* pid and status written to stdout and flushed, which blocks when the pipe
\* is full; with no child to reap the handler ends and the select loop
\* goes on, or is left when stdin was among the descriptors
CtWait3 ==
    /\ ct_pc = "handle"
    /\ IF ct_zombies > 0
       THEN /\ ct_zombies' = ct_zombies - 1
            /\ IF StatusLines < PipeLines
               THEN ct_out' = Append(ct_out, "status") /\ UNCHANGED ct_pc
               ELSE ct_pc' = "blocked" /\ UNCHANGED ct_out
       ELSE /\ ct_pc' = IF "stdin" \in ct_fds THEN "exited" ELSE "select"
            /\ UNCHANGED <<ct_out, ct_zombies>>
    /\ UNCHANGED <<ct_sigchld, ct_fds, ct_stdin, ct_children, p_pc, p_ends>>
    /\ UNCHANGED notCaretaker

\* end() on a started namespace: a newline is written to the caretaker's
\* stdin and the stream is closed; then the parent waits for the process
ParentEnd ==
    /\ p_pc = "running"
    /\ ct_stdin' = "closed"
    /\ p_pc' = "end_wait"
    /\ UNCHANGED <<ct_pc, ct_out, ct_zombies, ct_sigchld, ct_fds, ct_children,
                   p_ends>>
    /\ UNCHANGED notCaretaker

\* process.wait() returns once the caretaker has exited, and end() returns
ParentWaitReturns ==
    /\ p_pc = "end_wait"
    /\ ct_pc = "exited"
    /\ p_pc' = "ended"
    /\ UNCHANGED <<ct_pc, ct_out, ct_zombies, ct_sigchld, ct_fds, ct_stdin,
                   ct_children, p_ends>>
    /\ UNCHANGED notCaretaker

\* end() while process is None: returns at once
ParentEndIdle ==
    /\ p_pc = "none"
    /\ p_ends < MaxIdleEnds
    /\ p_ends' = p_ends + 1
    /\ UNCHANGED <<ct_pc, ct_out, ct_zombies, ct_sigchld, ct_fds, ct_stdin,
                   ct_children, p_pc>>
    /\ UNCHANGED notCaretaker

InitCaretaker ==
    /\ MuxInit /\ VtyshParked /\ RouterParked /\ StartParked /\ StopParked
    /\ LifecycleParked
    /\ DoStartParked
    /\ TicksParked
    /\ LeaksParked
    /\ AtexitParked
    /\ NetParked
    /\ NsParked
    /\ ConnParked
    /\ LoopParked
    /\ EnvParked
    /\ MuxParked
    /\ ReadParked
    /\ RunParked
    /\ NsStartParked
    /\ ScanParked
    /\ ct_pc = "none"
    /\ ct_out = <<>>
    /\ ct_zombies = 0
    /\ ct_sigchld = FALSE
    /\ ct_fds = {}
    /\ ct_stdin = "open"
    /\ ct_children = 0
    /\ p_pc = "none"
    /\ p_ends = 0

CaretakerStep == (\E ok \in BOOLEAN : CtSetup(ok)) \/ CtSelect \/ CtWait3

NextCaretaker ==
    \/ CtSpawn
    \/ \E ok \in BOOLEAN : CtSetup(ok)
    \/ ParentReady
    \/ ChildExits
    \/ CtSelect
    \/ CtWait3
    \/ ParentEnd
    \/ ParentWaitReturns
    \/ ParentEndIdle

SpecCaretaker == InitCaretaker /\ [][NextCaretaker]_vars

\* the caretaker and the parent are processes the system keeps scheduling:
\* a step of either that stays possible is eventually taken
SpecCaretakerLive ==
    /\ InitCaretaker /\ [][NextCaretaker]_vars
    /\ WF_vars(CaretakerStep)
    /\ WF_vars(ParentReady)
    /\ WF_vars(ParentWaitReturns)

\* C25: after end() has written the newline to the caretaker's stdin and
\* closed it, the caretaker eventually exits and end() returns, whatever
\* number of children was reaped before
C25_EndReturns ==
    (p_pc = "end_wait") ~> (ct_pc = "exited" /\ p_pc = "ended")

\* C26: over its whole lifetime the caretaker writes to stdout the
\* readiness byte only, once the namespace is set up, and nothing after it
C26_OnlyReadinessByte ==
    /\ ct_out \in {<<>>, <<"ready">>}
    /\ ct_pc \in {"select", "handle", "blocked"} => ct_out = <<"ready">>

(***************************************************************************)
(* Several vtysh_async batches on one event loop, each under the           *)
(* asyncio.wait_for of vtysh_polled: the sockets they make and use.        *)
(***************************************************************************)

\* the batches in progress at once, the commands of a batch, and the pieces
\* in which sock_sendall gets one command out
MaxBatches == 2
MaxBatchCmds == 2
MaxChunks == 2

Batches == 1..MaxBatches

\* what leaving "with socket.socket(...) as sock" does to the socket, except
\* after a cancellation
SockAfterWithLeak(reason) == IF reason = "cancelled" THEN "open" ELSE "closed"

\* what leaving "with socket.socket(...) as sock" does to the socket
SockAfterWith(reason) == "closed"

IdleTask == [pc |-> "idle", conn |-> 0, left |-> 0, chunk |-> 0]

\* the call of batch b ends for the given reason and its with block is left
CnEnd(b, reason, sent) ==
    LET c == cn_tasks[b].conn
    IN /\ cn_tasks' = [cn_tasks EXCEPT ![b].pc = reason]
       /\ cn_conns' = [cn_conns EXCEPT
              ![c].state = SockAfterWith(reason),
              ![c].sent = sent,
              ![c].cut = IF reason = "cancelled" THEN Some(Len(sent))
                         ELSE None]

\* vtysh_async begins: the command list is made and the socket created
CnBegin(b, n) ==
    /\ cn_tasks[b].pc = "idle"
    /\ cn_conns' = Append(cn_conns,
           [owner |-> b, state |-> "open", sent |-> <<>>, cut |-> None])
    /\ cn_tasks' = [cn_tasks EXCEPT
           ![b] = [pc |-> "connect", conn |-> Len(cn_conns) + 1, left |-> n,
                   chunk |-> 0]]
    /\ UNCHANGED notConn

\* sock_connect returns or raises OSError; with no command to send the call
\* returns right away
CnConnect(b, ok) ==
    /\ cn_tasks[b].pc = "connect"
    /\ LET c == cn_tasks[b].conn
       IN IF ~ok THEN CnEnd(b, "raised", cn_conns[c].sent)
          ELSE IF cn_tasks[b].left = 0
          THEN CnEnd(b, "done", cn_conns[c].sent)
          ELSE /\ cn_tasks' = [cn_tasks EXCEPT ![b].pc = "loop"]
               /\ UNCHANGED cn_conns
    /\ UNCHANGED notConn

\* sock_sendall: the next piece of the command and its terminator goes out
\* on the batch's socket, or the peer is gone and the send raises
CnSend(b, ok) ==
    /\ cn_tasks[b].pc \in {"loop", "sending"}
    /\ LET t == cn_tasks[b]
           c == t.conn
           sent == Append(cn_conns[c].sent, <<b, t.left, t.chunk + 1>>)
       IN IF ~ok THEN CnEnd(b, "raised", cn_conns[c].sent)
          ELSE /\ cn_conns' = [cn_conns EXCEPT ![c].sent = sent]
               /\ cn_tasks' = [cn_tasks EXCEPT
                      ![b].pc = IF t.chunk + 1 = MaxChunks THEN "recv"
                                ELSE "sending",
                      ![b].chunk = IF t.chunk + 1 = MaxChunks THEN 0
                                   ELSE t.chunk + 1,
                      ![b].left = IF t.chunk + 1 = MaxChunks THEN t.left - 1
                                  ELSE t.left]
    /\ UNCHANGED notConn

\* the response of the command is complete: the loop goes on with the next
\* command, or the call returns after the last one or a non-zero return
\* code, or raises on a response that does not decode
CnRecv(b, rc, decodes) ==
    /\ cn_tasks[b].pc = "recv"
    /\ LET c == cn_tasks[b].conn
       IN IF ~decodes THEN CnEnd(b, "raised", cn_conns[c].sent)
          ELSE IF rc # 0 \/ cn_tasks[b].left = 0
          THEN CnEnd(b, "done", cn_conns[c].sent)
          ELSE /\ cn_tasks' = [cn_tasks EXCEPT ![b].pc = "loop"]
               /\ UNCHANGED cn_conns
    /\ UNCHANGED notConn

\* the timeout of vtysh_polled expires while the call is suspended in
\* sock_connect, sock_sendall or sock_recv: the call is cancelled there
CnTimeout(b) ==
    /\ cn_tasks[b].pc \in {"connect", "sending", "recv"}
    /\ CnEnd(b, "cancelled", cn_conns[cn_tasks[b].conn].sent)
    /\ UNCHANGED notConn

InitConn ==
    /\ MuxInit /\ VtyshParked /\ RouterParked /\ StartParked /\ StopParked
    /\ LifecycleParked
    /\ DoStartParked
    /\ TicksParked
    /\ LeaksParked
    /\ AtexitParked
    /\ NetParked
    /\ NsParked
    /\ CaretakerParked
    /\ LoopParked
    /\ EnvParked
    /\ MuxParked
    /\ ReadParked
    /\ RunParked
    /\ NsStartParked
    /\ ScanParked
    /\ cn_tasks = [b \in Batches |-> IdleTask]
    /\ cn_conns = <<>>

NextConn ==
    \/ \E b \in Batches, n \in 0..MaxBatchCmds : CnBegin(b, n)
    \/ \E b \in Batches, ok \in BOOLEAN : CnConnect(b, ok)
    \/ \E b \in Batches, ok \in BOOLEAN : CnSend(b, ok)
    \/ \E b \in Batches, rc \in {0, 1}, decodes \in BOOLEAN :
           CnRecv(b, rc, decodes)
    \/ \E b \in Batches : CnTimeout(b)

SpecConn == InitConn /\ [][NextConn]_vars

CnEnded(b) == cn_tasks[b].pc \in {"done", "raised", "cancelled"}

\* C27: each batch has a connection of its own, on which only that batch
\* sends; the connection is closed when the batch has ended, for any reason;
\* and a connection whose batch was cancelled by the timeout carries no byte
\* beyond those sent when the timeout struck
C27_OwnConnectionClosedAtEnd ==
    /\ \A c \in 1..Len(cn_conns) :
           /\ \A k \in 1..Len(cn_conns[c].sent) :
                  cn_conns[c].sent[k][1] = cn_conns[c].owner
           /\ cn_tasks[cn_conns[c].owner].conn = c
           /\ cn_conns[c].cut # None =>
                  Len(cn_conns[c].sent) = cn_conns[c].cut[1]
    /\ \A b \in Batches :
           /\ cn_tasks[b].pc # "idle" =>
                  /\ cn_tasks[b].conn \in 1..Len(cn_conns)
                  /\ cn_conns[cn_tasks[b].conn].owner = b
           /\ CnEnded(b) => cn_conns[cn_tasks[b].conn].state = "closed"
           /\ (cn_tasks[b].pc # "idle" /\ ~CnEnded(b)) =>
                  cn_conns[cn_tasks[b].conn].state = "open"

\* C27 witness: one batch was cancelled in the middle of sending its second
\* command while the other batch, on its own connection, sent its commands
\* and returned
C27_Witness ==
    /\ cn_tasks[1].pc = "cancelled"
    /\ Len(cn_conns[cn_tasks[1].conn].sent) = MaxChunks + 1
    /\ cn_tasks[2].pc = "done"
    /\ Len(cn_conns[cn_tasks[2].conn].sent) = 2 * MaxChunks
    /\ cn_tasks[1].conn # cn_tasks[2].conn

(***************************************************************************)
(* The waits of start_daemon and stop_daemon on the network's event loop.  *)
(* The loop runs one task at a time, from one suspension point of the task *)
(* to its next.                                                            *)
(***************************************************************************)

\* the tasks on the loop, and the retries a start_daemon has left
\* (range(30, -1, -1) in the code)
MaxTasks == 2
LoopRetries == 2

\* range(0, 5) of stop_daemon
StopPolls == 5

LoopTasks == 1..MaxTasks

NewTask(kind) ==
    [kind |-> kind, pc |-> "new", wait |-> "none",
     n |-> IF kind = "start_daemon" THEN LoopRetries ELSE 0]

\* the task leaves the loop to others until what it waits for has happened
Suspend(t, pc, wait) ==
    /\ lp_tasks' = [lp_tasks EXCEPT ![t].pc = pc, ![t].wait = wait]
    /\ lp_holder' = 0

\* the loop is free and runs a task that is new or whose wait is over
LpResume(t) ==
    /\ lp_holder = 0
    /\ lp_tasks[t].pc # "done"
    /\ lp_holder' = t
    /\ lp_tasks' = [lp_tasks EXCEPT ![t].wait = "none"]
    /\ UNCHANGED notLoop

\* start_daemon, up to the await of vtysh_polled: connect, send and receive
\* on the control socket are awaited
LpStartVtysh(t) ==
    /\ lp_holder = t
    /\ lp_tasks[t].kind = "start_daemon"
    /\ lp_tasks[t].pc \in {"new", "retry"}
    /\ lp_tasks[t].wait = "none"
    /\ Suspend(t, "vtysh", "socket")
    /\ UNCHANGED notLoop

\* vtysh_polled has returned or raised: the pid is recorded, or after
\* ConnectionRefusedError / FileNotFoundError the task pauses with
\* time.sleep(0.1) when a retry is left, and raises otherwise
LpStartResult(t, ok) ==
    /\ lp_holder = t
    /\ lp_tasks[t].pc = "vtysh"
    /\ lp_tasks[t].wait = "none"
    /\ IF ok \/ lp_tasks[t].n = 0
       THEN /\ lp_tasks' = [lp_tasks EXCEPT ![t].pc = "done"]
            /\ lp_holder' = 0
       ELSE /\ lp_tasks' = [lp_tasks EXCEPT ![t].pc = "paused",
                                            ![t].wait = "retry_pause"]
            /\ UNCHANGED lp_holder
    /\ UNCHANGED notLoop

\* time.sleep(0.1) returns and the loop of start_daemon continues
LpSleepReturns(t) ==
    /\ lp_holder = t
    /\ lp_tasks[t].pc = "paused"
    /\ lp_tasks' = [lp_tasks EXCEPT ![t].pc = "retry", ![t].wait = "none",
                                    ![t].n = @ - 1]
    /\ UNCHANGED lp_holder
    /\ UNCHANGED notLoop

\* stop_daemon: SIGTERM, then up to five times "await asyncio.sleep(i * 0.1)"
\* followed by another SIGTERM, which finds the process gone or not
LpStopPoll(t, gone) ==
    /\ lp_holder = t
    /\ lp_tasks[t].kind = "stop_daemon"
    /\ lp_tasks[t].wait = "none"
    /\ IF lp_tasks[t].pc = "new"
       THEN IF gone
            THEN /\ lp_tasks' = [lp_tasks EXCEPT ![t].pc = "done"]
                 /\ lp_holder' = 0
            ELSE Suspend(t, "poll", "stop_pause")
       ELSE /\ lp_tasks[t].pc = "poll"
            /\ IF gone \/ lp_tasks[t].n + 1 = StopPolls
               THEN /\ lp_tasks' = [lp_tasks EXCEPT ![t].pc = "done",
                                                    ![t].n = @ + 1]
                    /\ lp_holder' = 0
               ELSE /\ lp_tasks' = [lp_tasks EXCEPT ![t].n = @ + 1,
                                                    ![t].wait = "stop_pause"]
                    /\ lp_holder' = 0
    /\ UNCHANGED notLoop

InitLoop ==
    /\ MuxInit /\ VtyshParked /\ RouterParked /\ StartParked /\ StopParked
    /\ LifecycleParked
    /\ DoStartParked
    /\ TicksParked
    /\ LeaksParked
    /\ AtexitParked
    /\ NetParked
    /\ NsParked
    /\ CaretakerParked
    /\ ConnParked
    /\ EnvParked
    /\ MuxParked
    /\ ReadParked
    /\ RunParked
    /\ NsStartParked
    /\ ScanParked
    /\ \E kinds \in [LoopTasks -> {"start_daemon", "stop_daemon"}] :
           lp_tasks = [t \in LoopTasks |-> NewTask(kinds[t])]
    /\ lp_holder = 0

NextLoop ==
    \/ \E t \in LoopTasks : LpResume(t)
    \/ \E t \in LoopTasks : LpStartVtysh(t)
    \/ \E t \in LoopTasks, ok \in BOOLEAN : LpStartResult(t, ok)
    \/ \E t \in LoopTasks : LpSleepReturns(t)
    \/ \E t \in LoopTasks, gone \in BOOLEAN : LpStopPoll(t, gone)

SpecLoop == InitLoop /\ [][NextLoop]_vars

\* C28: every wait of a daemon operation is a suspension point of the event
\* loop: a task that waits (on the control socket, between start retries,
\* between stop polls) does not hold the loop, so that other tasks can run
C28_EveryWaitSuspends ==
    \A t \in LoopTasks : lp_tasks[t].wait # "none" => lp_holder # t

\* the wrappers made by ctx_until_stop whose with block has ended, and
\* how often a closure was called by _do_atexit
CtxLeft ==
    {fn \in 1..Len(ax_fns) :
        /\ ax_fns[fn].kind = "ctx"
        /\ \A k \in 1..Len(ax_stack) : ax_stack[k] # fn}

CalledAtStop(fn) == Cardinality({k \in 1..Len(ax_ran) : ax_ran[k].fn = fn})

ExitsAtOnce(fn) == ax_fns[fn].exit_on_exception /\ fn \in ctx_raised

\* C29: a context manager wrapped with ctx_until_stop, still referenced, has
\* its __exit__ called exactly once: at the end of the with block when the
\* body raised and exit_on_exception is set, and otherwise by the call of
\* its wrapper from the atexit list at the stop of the host (the one call of
\* _do_atexit that stop() makes for the host)
C29_ExitExactlyOnce ==
    ax_runs <= 1 =>
        /\ \A fn \in 1..Len(ax_fns) :
               (ax_fns[fn].kind = "ctx" /\ fn \notin CtxLeft) =>
                   ctx_exits[fn] = 0
        /\ \A fn \in CtxLeft \ ctx_gone :
               IF ExitsAtOnce(fn)
               THEN /\ ctx_exits[fn] = 1
                    /\ CalledAtStop(fn) = 0
                    /\ \A k \in 1..Len(ax_list) : ax_list[k] # fn
               ELSE /\ ctx_exits[fn] = CalledAtStop(fn)
                    /\ ctx_exits[fn] <= 1
                    /\ ax_pc = "idle" => ctx_exits[fn] = 0
                    /\ ax_pc = "done" => ctx_exits[fn] = 1

\* C29 witness: of two wrappers, the first was exited at once because its
\* body raised, the second, whose body raised with exit_on_exception unset,
\* at the stop of the host; each exactly once
C29_Witness ==
    /\ ax_pc = "done"
    /\ Len(ax_fns) >= 2
    /\ ax_fns[1].kind = "ctx" /\ ax_fns[2].kind = "ctx"
    /\ ctx_gone = {}
    /\ ExitsAtOnce(1) /\ ctx_exits[1] = 1
    /\ 2 \in ctx_raised /\ ~ax_fns[2].exit_on_exception
    /\ ctx_exits[2] = 1 /\ CalledAtStop(2) = 1

(***************************************************************************)
(* The environment of a command run through a virtual host:                *)
(* CallableEnvMixin._modify_env, called by popen, check_call and           *)
(* check_output.  Dicts are objects: update() changes the object it is     *)
(* called on.                                                              *)
(***************************************************************************)

EnvKeys == {"PATH", "TMPDIR"}
EnvValues == {"os", "caller", "instance", "host"}

\* the dicts an object can hold at the start: a key is set by its owner or
\* absent
DictsOf(owner) ==
    UNION {[ks -> {owner}] : ks \in SUBSET EnvKeys}

EnvObjects == {"os.environ", "instance.environ", "self.environ", "env", "child"}

\* dict.update(other)
DictUpdate(dict, other) ==
    [k \in DOMAIN dict \cup DOMAIN other |->
        IF k \in DOMAIN other THEN other[k] ELSE dict[k]]

\* kwargs["env"] bound to the source mapping itself
EnvTargetAlias(src) == src

\* kwargs["env"] = dict(...): a new dict object
EnvTarget(src) == "child"

\* _modify_env: the objects after the call
ModifyEnv(heap, given) ==
    LET src == IF given THEN "env" ELSE "os.environ"
        tgt == EnvTarget(src)
        h1 == [heap EXCEPT ![tgt] = heap[src]]
        h2 == [h1 EXCEPT ![tgt] = DictUpdate(@, h1["instance.environ"])]
    IN [h2 EXCEPT ![tgt] = DictUpdate(@, h2["self.environ"])]

\* popen, check_call or check_output of the host, with or without env
EnvCall(op, given) ==
    /\ me_pre' = me_heap
    /\ me_given' = given
    /\ me_op' = op
    /\ me_heap' = ModifyEnv(me_heap, given)
    /\ UNCHANGED notEnv

\* the caller or the test changes one of its dicts between commands
EnvSet(obj, key) ==
    /\ obj \in {"instance.environ", "self.environ"}
    /\ key \notin DOMAIN me_heap[obj]
    /\ me_op # "none"
    /\ me_heap' = [me_heap EXCEPT ![obj] = DictUpdate(@,
                       [k \in {key} |->
                           IF obj = "instance.environ" THEN "instance"
                           ELSE "host"])]
    /\ me_op' = "none"
    /\ UNCHANGED <<me_given, me_pre>>
    /\ UNCHANGED notEnv

InitEnv ==
    /\ MuxInit /\ VtyshParked /\ RouterParked /\ StartParked /\ StopParked
    /\ LifecycleParked
    /\ DoStartParked
    /\ TicksParked
    /\ LeaksParked
    /\ AtexitParked
    /\ NetParked
    /\ NsParked
    /\ CaretakerParked
    /\ ConnParked
    /\ LoopParked
    /\ MuxParked
    /\ ReadParked
    /\ RunParked
    /\ NsStartParked
    /\ ScanParked
    /\ \E o \in DictsOf("os"), i \in DictsOf("instance"),
          h \in DictsOf("host"), c \in DictsOf("caller") :
           me_heap = [x \in EnvObjects |->
                         CASE x = "os.environ" -> o
                           [] x = "instance.environ" -> i
                           [] x = "self.environ" -> h
                           [] x = "env" -> c
                           [] OTHER -> <<>>]
    /\ me_given \in BOOLEAN
    /\ me_pre = me_heap
    /\ me_op = "none"

NextEnv ==
    \/ \E op \in {"popen", "check_call", "check_output"}, given \in BOOLEAN :
           EnvCall(op, given)
    \/ \E obj \in EnvObjects, key \in EnvKeys : EnvSet(obj, key)

SpecEnv == InitEnv /\ [][NextEnv]_vars

\* the value of a key in the child's environment as the statement has it:
\* the host's, else the instance's, else the caller's or os.environ's
Expected(pre, given, k) ==
    IF k \in DOMAIN pre["self.environ"] THEN pre["self.environ"][k]
    ELSE IF k \in DOMAIN pre["instance.environ"]
    THEN pre["instance.environ"][k]
    ELSE IF given THEN pre["env"][k] ELSE pre["os.environ"][k]

\* C30: a command run through a virtual host gets the caller's env (or
\* os.environ when none is given), overridden by the instance-wide dict and
\* then by the per-host dict; the caller's env, os.environ and both override
\* dicts are as they were before the call
C30_ChildEnvAndFrame ==
    me_op # "none" =>
        /\ DOMAIN me_heap["child"] =
               DOMAIN me_pre[IF me_given THEN "env" ELSE "os.environ"]
                   \cup DOMAIN me_pre["instance.environ"]
                   \cup DOMAIN me_pre["self.environ"]
        /\ \A k \in DOMAIN me_heap["child"] :
               me_heap["child"][k] = Expected(me_pre, me_given, k)
        /\ \A x \in EnvObjects \ {"child"} : me_heap[x] = me_pre[x]

\* C30 witness: the same key is set by the caller, the instance and the
\* host, and the child got the host's value, with another key from the
\* caller
C30_Witness ==
    /\ me_op = "check_call"
    /\ me_given
    /\ "PATH" \in DOMAIN me_pre["env"]
    /\ "PATH" \in DOMAIN me_pre["instance.environ"]
    /\ "PATH" \in DOMAIN me_pre["self.environ"]
    /\ "TMPDIR" \in DOMAIN me_pre["env"]
    /\ "TMPDIR" \notin DOMAIN me_pre["instance.environ"]
    /\ "TMPDIR" \notin DOMAIN me_pre["self.environ"]
    /\ me_heap["child"] = [k \in EnvKeys |->
                              IF k = "PATH" THEN "host" ELSE "caller"]
    /\ me_heap["env"] = [k \in EnvKeys |-> "caller"]

(***************************************************************************)
(* frr/core.py and timeline.py: the event mux of a router (self.events)    *)
(* with the Timeline of the network registered on it, EventMux.dispatch    *)
(* taken one statement at a time.                                          *)
(***************************************************************************)
MaxMuxEvents == 3
MaxMuxBatch == 2
MaxMuxTime == 2

\* the two muxes: FRRRouterNS.events and NetworkInstance.timeline
Muxes == {"events", "timeline"}

\* plain receivers (EventIter, PacketObserver): dispatch() queues the batch
Receivers == {"s1", "s2"}

\* EventMux.__init__: "self.history = []", "self._dispatch = []"
EventMuxNew == [history |-> <<>>, dispatch |-> <<>>]

\* a plausible slip: dispatch_add that forgets the receiver
DispatchAddNothing(disp, receiver) == disp

\* EventMux.dispatch_add(receiver) with no backfill:
\* "self._dispatch.append(receiver)"
DispatchAppend(disp, receiver) == Append(disp, receiver)

\* a plausible slip: the subscribers taken last-registered first
SubAtReversed(disp, i) == disp[Len(disp) - i]

\* "for sub in self._dispatch": the subscriber of the (i+1)-th iteration
SubAt(disp, i) == disp[i + 1]

\* the elements of the n-th outside dispatch() call, fresh ones
MuxBatch(times, first) ==
    [k \in 1..Len(times) |-> [ts |-> <<times[k], 0>>, id |-> first + k]]

\* the number of elements handed to dispatch() calls from outside so far
RECURSIVE EmittedCount(_)
EmittedCount(emits) ==
    IF emits = <<>> THEN 0
    ELSE Len(Head(emits).elements) + EmittedCount(Tail(emits))

\* a dispatch() call from outside the muxes begins: its frame is pushed
MxCall(mux, elements) ==
    /\ mx_stack = <<>>
    /\ mx_emits' = Append(mx_emits,
                          [mux |-> mux, elements |-> elements,
                           disp |-> mx_disp])
    /\ mx_stack' = <<[emit |-> Len(mx_emits) + 1, mux |-> mux,
                      elements |-> elements, i |-> 0, k |-> 0]>>
    /\ UNCHANGED <<mx_hist, mx_disp, mx_queue, mx_log>>
    /\ UNCHANGED notMux

\* vtysh_exec / vtysh_async: "self.events.dispatch([event])"
MxVtysh ==
    /\ EmittedCount(mx_emits) < MaxMuxEvents
    /\ \E t \in 1..MaxMuxTime :
           MxCall("events", MuxBatch(<<t>>, EmittedCount(mx_emits)))

\* logcapture.py: "self._timeline.dispatch([PyLogEvent(record)])"
MxPyLog ==
    /\ EmittedCount(mx_emits) < MaxMuxEvents
    /\ \E t \in 1..MaxMuxTime :
           MxCall("timeline", MuxBatch(<<t>>, EmittedCount(mx_emits)))

\* any other caller of EventMux.dispatch, with a batch of several elements
MxBatchCall ==
    \E mux \in Muxes, n \in 2..MaxMuxBatch :
        /\ EmittedCount(mx_emits) + n <= MaxMuxEvents
        /\ \E times \in SeqsOfLen(1..MaxMuxTime, n) :
               MxCall(mux, MuxBatch(times, EmittedCount(mx_emits)))

\* one iteration of "for sub in self._dispatch: sub.dispatch(elements)":
\* a mux subscriber starts its own dispatch(), a plain one queues the batch
MxForward ==
    /\ mx_stack # <<>>
    /\ LET f == Head(mx_stack)
           disp == mx_disp[f.mux]
       IN  /\ f.k = 0
           /\ f.i < Len(disp)
           /\ LET sub == SubAt(disp, f.i)
                  caller == [f EXCEPT !.i = f.i + 1]
              IN  /\ mx_log' = Append(mx_log,
                         [emit |-> f.emit, mux |-> f.mux, sub |-> sub,
                          pos |-> f.i + 1, regs |-> disp,
                          elements |-> f.elements,
                          hist |-> mx_hist[f.mux]])
                  /\ IF sub \in Muxes
                     THEN /\ mx_stack' =
                                 <<[emit |-> f.emit, mux |-> sub,
                                    elements |-> f.elements,
                                    i |-> 0, k |-> 0], caller>>
                                 \o Tail(mx_stack)
                          /\ UNCHANGED mx_queue
                     ELSE /\ mx_stack' = <<caller>> \o Tail(mx_stack)
                          /\ mx_queue' = [mx_queue EXCEPT
                                              ![sub] = Append(@, f.elements)]
    /\ UNCHANGED <<mx_hist, mx_disp, mx_emits>>
    /\ UNCHANGED notMux

\* one iteration of "for element in elements: bisect.insort(...)"
MxInsort ==
    /\ mx_stack # <<>>
    /\ LET f == Head(mx_stack) IN
           /\ f.i = Len(mx_disp[f.mux])
           /\ f.k < Len(f.elements)
           /\ mx_hist' = [mx_hist EXCEPT
                              ![f.mux] = Insort(@, f.elements[f.k + 1])]
           /\ mx_stack' = <<[f EXCEPT !.k = f.k + 1]>> \o Tail(mx_stack)
    /\ UNCHANGED <<mx_disp, mx_queue, mx_log, mx_emits>>
    /\ UNCHANGED notMux

\* dispatch() returns to its caller
MxReturn ==
    /\ mx_stack # <<>>
    /\ LET f == Head(mx_stack) IN
           /\ f.i = Len(mx_disp[f.mux])
           /\ f.k = Len(f.elements)
    /\ mx_stack' = Tail(mx_stack)
    /\ UNCHANGED <<mx_hist, mx_disp, mx_queue, mx_log, mx_emits>>
    /\ UNCHANGED notMux

\* the muxes a receiver is registered on
RegisteredOn(r) == {m \in Muxes : \E j \in 1..Len(mx_disp[m]) : mx_disp[m][j] = r}

\* EventIter.__enter__ / PacketObserver.__aenter__: dispatch_add(self)
MxAdd(r, mux) ==
    /\ mx_stack = <<>>
    /\ RegisteredOn(r) = {}
    /\ mx_disp' = [mx_disp EXCEPT ![mux] = DispatchAppend(@, r)]
    /\ UNCHANGED <<mx_hist, mx_queue, mx_stack, mx_log, mx_emits>>
    /\ UNCHANGED notMux

\* EventIter.__exit__ / PacketObserver.__aexit__: dispatch_remove(self)
MxRemove(r, mux) ==
    /\ mx_stack = <<>>
    /\ mux \in RegisteredOn(r)
    /\ mx_disp' = [mx_disp EXCEPT ![mux] = ListRemove(@, r)]
    /\ UNCHANGED <<mx_hist, mx_queue, mx_stack, mx_log, mx_emits>>
    /\ UNCHANGED notMux

\* FRRRouterNS.__init__: "self.events = EventMux()" and
\* "self.events.dispatch_add(self.instance.timeline)"
InitMux ==
    /\ MuxInit /\ VtyshParked /\ RouterParked /\ StartParked /\ StopParked
    /\ LifecycleParked
    /\ DoStartParked
    /\ TicksParked
    /\ LeaksParked
    /\ AtexitParked
    /\ NetParked
    /\ NsParked
    /\ CaretakerParked
    /\ ConnParked
    /\ LoopParked
    /\ EnvParked
    /\ ReadParked
    /\ RunParked
    /\ NsStartParked
    /\ ScanParked
    /\ mx_hist = [m \in Muxes |-> EventMuxNew.history]
    /\ mx_disp = [m \in Muxes |->
                     IF m = "events"
                     THEN DispatchAppend(EventMuxNew.dispatch, "timeline")
                     ELSE EventMuxNew.dispatch]
    /\ mx_queue = [r \in Receivers |-> <<>>]
    /\ mx_stack = <<>>
    /\ mx_log = <<>>
    /\ mx_emits = <<>>

NextMux ==
    \/ MxVtysh
    \/ MxPyLog
    \/ MxBatchCall
    \/ MxForward
    \/ MxInsort
    \/ MxReturn
    \/ \E r \in Receivers, mux \in Muxes : MxAdd(r, mux)
    \/ \E r \in Receivers, mux \in Muxes : MxRemove(r, mux)

SpecMux == InitMux /\ [][NextMux]_vars

\* the sub.dispatch() calls made so far by one dispatch() call of one mux
CallbacksOf(emit, mux, upto) ==
    {j \in 1..upto : mx_log[j].emit = emit /\ mx_log[j].mux = mux}

\* the element is in the list
InList(l, e) == \E j \in 1..Len(l) : l[j] = e

\* the dispatch() call of this mux for this outside call is still running
Running(emit, mux) ==
    \E j \in 1..Len(mx_stack) :
        mx_stack[j].emit = emit /\ mx_stack[j].mux = mux

\* C31: EventMux.dispatch hands the batch to every registered subscriber, in
\* registration order, before it inserts any element of the batch into the
\* history: the history a subscriber's dispatch callback can see holds no
\* element of the batch, the n-th callback of a call goes to the n-th
\* registered subscriber, no element is inserted while a subscriber is still
\* to be called, and a call that returned has called every subscriber.
C31_ForwardThenInsert ==
    /\ \A j \in 1..Len(mx_log) :
           LET r == mx_log[j] IN
               /\ r.sub = r.regs[r.pos]
               /\ Cardinality(CallbacksOf(r.emit, r.mux, j)) = r.pos
               /\ \A k \in 1..Len(r.elements) : ~InList(r.hist, r.elements[k])
    /\ \A j \in 1..Len(mx_stack) :
           LET f == mx_stack[j] IN
               /\ f.k > 0 =>
                      Cardinality(CallbacksOf(f.emit, f.mux, Len(mx_log)))
                          = Len(mx_disp[f.mux])
               /\ \A k \in 1..Len(f.elements) :
                      InList(mx_hist[f.mux], f.elements[k]) <=> k <= f.k
    /\ \A n \in 1..Len(mx_emits) :
           LET c == mx_emits[n] IN
               ~Running(n, c.mux) =>
                   /\ Cardinality(CallbacksOf(n, c.mux, Len(mx_log)))
                          = Len(c.disp[c.mux])
                   /\ \A k \in 1..Len(c.elements) :
                          InList(mx_hist[c.mux], c.elements[k])

\* a batch of two elements went to two subscribers of the Timeline, the
\* second of them called second, and is in the history after the call
C31_Witness ==
    /\ mx_stack = <<>>
    /\ \E j \in 1..Len(mx_log) :
           /\ mx_log[j].mux = "timeline"
           /\ mx_log[j].pos = 2
           /\ Len(mx_log[j].elements) = 2
           /\ mx_log[j].hist # <<>>
           /\ InList(mx_hist["timeline"], mx_log[j].elements[2])

\* how many batches of the queue hold the element
RECURSIVE Deliveries(_, _)
Deliveries(queue, e) ==
    IF queue = <<>> THEN 0
    ELSE (IF InList(Head(queue), e) THEN 1 ELSE 0)
         + Deliveries(Tail(queue), e)

\* how often the element is in the list
Occurrences(l, e) == Cardinality({j \in 1..Len(l) : l[j] = e})

\* the events the router dispatched on its own mux, with the subscribers the
\* Timeline had at that moment
RouterEmits == {n \in 1..Len(mx_emits) : mx_emits[n].mux = "events"}

\* C40: once the router's "self.events.dispatch([event])" has returned, the
\* event is in the history of the Timeline exactly once, and every
\* subscriber that was registered on the Timeline when the router dispatched
\* it received it exactly once.
C40_RouterEventReachesTimeline ==
    mx_stack = <<>> =>
        \A n \in RouterEmits :
            LET c == mx_emits[n] IN
                \A k \in 1..Len(c.elements) :
                    /\ Occurrences(mx_hist["timeline"], c.elements[k]) = 1
                    /\ \A r \in Receivers :
                           InList(c.disp["timeline"], r) =>
                               Deliveries(mx_queue[r], c.elements[k]) = 1

\* a router event went through a Timeline that had two subscribers, after an
\* earlier event that only one of them saw
C40_Witness ==
    /\ mx_stack = <<>>
    /\ \E n \in RouterEmits :
           /\ Len(mx_emits[n].disp["timeline"]) = 2
           /\ Len(mx_hist["timeline"]) >= 2
           /\ Len(mx_queue["s1"]) # Len(mx_queue["s2"])
           /\ Occurrences(mx_hist["events"], mx_emits[n].elements[1]) = 1

(***************************************************************************)
(* frr/core.py: the receive loop of vtysh_async for one response, with     *)
(* the stream cut into chunks in every possible way.                       *)
(***************************************************************************)
MaxBody == 3

\* the bytes of a response text: CR, LF, "A" and the two bytes of U+00E9
BodyBytes == {13, 10, 65, 195, 169}

\* the response on the wire: the text, three NUL bytes and the return code
ResponseStream == rd_body \o <<0, 0, 0, rd_rc>>

\* "raw.decode('UTF-8').replace('\r\n', '\n')" and "retcode = cur_out[-1]"
ResultOf(cur) ==
    LET dec == Decode(RawOf(cur)) IN
        IF dec.ok THEN <<"ok", ReplaceCRLF(dec.str), RetcodeOf(cur)>>
        ELSE <<"UnicodeDecodeError">>

\* one "cur_out += await aioloop.sock_recv(sock, 4096)" returning the next
\* n bytes of the stream, followed by the loop test and, when the loop ends,
\* by lines 876-879
RdRecv(n) ==
    /\ rd_pc = "recv"
    /\ n <= RecvSize
    /\ Len(rd_cur) + n <= Len(ResponseStream)
    /\ LET cur == rd_cur \o SubSeq(ResponseStream, Len(rd_cur) + 1,
                                   Len(rd_cur) + n)
       IN  /\ rd_cur' = cur
           /\ rd_recvs' = rd_recvs + 1
           /\ IF Terminated(cur)
              THEN rd_pc' = "done" /\ rd_result' = ResultOf(cur)
              ELSE UNCHANGED <<rd_pc, rd_result>>
    /\ UNCHANGED <<rd_body, rd_rc>>
    /\ UNCHANGED notRead

\* "cur_out = b''" with the response of the daemon on its way
InitRead ==
    /\ MuxInit /\ VtyshParked /\ RouterParked /\ StartParked /\ StopParked
    /\ LifecycleParked
    /\ DoStartParked
    /\ TicksParked
    /\ LeaksParked
    /\ AtexitParked
    /\ NetParked
    /\ NsParked
    /\ CaretakerParked
    /\ ConnParked
    /\ LoopParked
    /\ EnvParked
    /\ MuxParked
    /\ RunParked
    /\ NsStartParked
    /\ ScanParked
    /\ rd_body \in UNION {SeqsOfLen(BodyBytes, n) : n \in 0..MaxBody}
    /\ rd_rc \in {0, 1}
    /\ rd_cur = <<>>
    /\ rd_pc = "recv"
    /\ rd_recvs = 0
    /\ rd_result = <<>>

NextRead == \E n \in 1..(MaxBody + 4) : RdRecv(n)

SpecRead == InitRead /\ [][NextRead]_vars

\* the result the response stands for, from the text and the return code the
\* daemon sent
ExpectedResult ==
    IF Decode(rd_body).ok
    THEN <<"ok", ReplaceCRLF(Decode(rd_body).str), rd_rc>>
    ELSE <<"UnicodeDecodeError">>

\* C32: however the bytes of a response are cut into non-empty chunks by the
\* recv calls, the receive loop ends exactly when the whole response, its
\* four-byte terminator included, has been read, never earlier, and the text
\* and return code taken from it are those of the response.
C32_SplitDoesNotMatter ==
    /\ rd_pc = "done" =>
           /\ rd_cur = ResponseStream
           /\ rd_result = ExpectedResult
    /\ rd_pc = "recv" => Len(rd_cur) < Len(ResponseStream)

\* a response with a two-byte character and return code 1 was read in more
\* than three chunks
C32_Witness ==
    /\ rd_pc = "done"
    /\ rd_recvs > 3
    /\ rd_rc = 1
    /\ rd_body = <<195, 169>>
    /\ rd_result = <<"ok", <<233>>, 1>>

(***************************************************************************)
(* frr/core.py: start_daemon, what was exchanged when the pid is recorded. *)
(***************************************************************************)
\* "debug memstats-at-exit", the third line of the bookkeeping batch
MemstatsLine == SubSeq(Bookkeeping, 18, 39)

\* the command was sent on the control socket and its response was read
Answered(line) == \E k \in 1..Len(output) : output[k].cmd = line

\* C33: a daemon is in pids only after a connection to its control socket
\* succeeded and "debug memstats-at-exit" was sent to it and answered.
C33_ReadyOnlyAfterMemstats ==
    sd_daemon \in DOMAIN pids =>
        /\ v_pid = PidOf(sd_daemon)
        /\ Answered(MemstatsLine)

(***************************************************************************)
(* frr/core.py: FRRRouterNS.start_run, the daemon loop and the config load *)
(***************************************************************************)
RunDaemons == {"zebra", "staticd", "ospfd"}

\* the lists of distinct daemons a router can be configured with
DaemonLists ==
    {l \in UNION {SeqsOfLen(RunDaemons, n) : n \in 0..Cardinality(RunDaemons)} :
        \A a, b \in 1..Len(l) : a # b => l[a] # l[b]}

\* a plausible slip: start_run starts its daemons with the default argument
DeferConfigDefault == FALSE

\* "await self.start_daemon(daemon, defer_config=True)"
DeferConfig == TRUE

\* one turn of "for daemon in self._configs.daemons": the two "continue"
\* tests, or the call of start_daemon
SrLoop ==
    /\ sr_pc = "loop"
    /\ sr_i < Len(sr_daemons)
    /\ LET d == sr_daemons[sr_i + 1] IN
           IF d \notin sr_rtrcfg \/ d \notin sr_build
           THEN /\ sr_i' = sr_i + 1
                /\ UNCHANGED <<sr_pc, sr_log>>
           ELSE /\ sr_pc' = "start_daemon"
                /\ sr_log' = Append(sr_log, <<"start_daemon", d>>)
                /\ UNCHANGED sr_i
    /\ UNCHANGED <<sr_daemons, sr_rtrcfg, sr_build, sr_pids, sr_exc>>
    /\ UNCHANGED notRun

\* start_daemon(daemon, defer_config) ends: it raises, or it has recorded the
\* pid, loaded the daemon's configuration unless deferred, and returns
SrStartDaemon(outcome, loadOutcome) ==
    /\ sr_pc = "start_daemon"
    /\ LET d == sr_daemons[sr_i + 1] IN
           IF outcome # "ok"
           THEN /\ sr_exc' = outcome
                /\ sr_pc' = "raised"
                /\ sr_log' = Append(sr_log, <<"raised", d>>)
                /\ UNCHANGED <<sr_i, sr_pids>>
           ELSE /\ sr_pids' = DictSet(sr_pids, d, PidOf(d))
                /\ IF DeferConfig
                   THEN /\ loadOutcome = "ok"
                        /\ sr_log' = Append(sr_log, <<"returned", d>>)
                        /\ sr_i' = sr_i + 1
                        /\ sr_pc' = "loop"
                        /\ UNCHANGED sr_exc
                   ELSE IF loadOutcome = "ok"
                   THEN /\ sr_log' = sr_log \o
                                 << <<"load", d>>, <<"returned", d>> >>
                        /\ sr_i' = sr_i + 1
                        /\ sr_pc' = "loop"
                        /\ UNCHANGED sr_exc
                   ELSE /\ sr_log' = sr_log \o
                                 << <<"load", d>>, <<"raised", d>> >>
                        /\ sr_exc' = loadOutcome
                        /\ sr_pc' = "raised"
                        /\ UNCHANGED sr_i
    /\ UNCHANGED <<sr_daemons, sr_rtrcfg, sr_build>>
    /\ UNCHANGED notRun

\* after the loop: "if self.pids: await self._load_config()"
SrLoadAll(loadOutcome) ==
    /\ sr_pc = "loop"
    /\ sr_i = Len(sr_daemons)
    /\ IF sr_pids # <<>>
       THEN /\ sr_log' = Append(sr_log, <<"load", "all">>)
            /\ sr_exc' = IF loadOutcome = "ok" THEN NoExc ELSE loadOutcome
            /\ sr_pc' = IF loadOutcome = "ok" THEN "done" ELSE "raised"
       ELSE /\ loadOutcome = "ok"
            /\ sr_pc' = "done"
            /\ UNCHANGED <<sr_log, sr_exc>>
    /\ UNCHANGED <<sr_daemons, sr_rtrcfg, sr_build, sr_i, sr_pids>>
    /\ UNCHANGED notRun

\* what a start_daemon call ends with, and what _load_config ends with
StartOutcomes == {"ok", "TopotatoDaemonStartFail", "TimeoutError"}
LoadOutcomes == {"ok", "FRRStartupVtyshConfigFail", "CalledProcessError"}

\* start_run is entered: pids is empty as __init__ left it
InitRun ==
    /\ MuxInit /\ VtyshParked /\ RouterParked /\ StartParked /\ StopParked
    /\ LifecycleParked
    /\ DoStartParked
    /\ TicksParked
    /\ LeaksParked
    /\ AtexitParked
    /\ NetParked
    /\ NsParked
    /\ CaretakerParked
    /\ ConnParked
    /\ LoopParked
    /\ EnvParked
    /\ MuxParked
    /\ ReadParked
    /\ NsStartParked
    /\ ScanParked
    /\ sr_daemons \in DaemonLists
    /\ sr_rtrcfg \in SUBSET {sr_daemons[k] : k \in 1..Len(sr_daemons)}
    /\ sr_build \in SUBSET RunDaemons
    /\ sr_pc = "loop"
    /\ sr_i = 0
    /\ sr_pids = <<>>
    /\ sr_log = <<>>
    /\ sr_exc = NoExc

NextRun ==
    \/ SrLoop
    \/ \E o \in StartOutcomes, l \in LoadOutcomes : SrStartDaemon(o, l)
    \/ \E l \in LoadOutcomes : SrLoadAll(l)

SpecRun == InitRun /\ [][NextRun]_vars

\* the places of the log with this entry
LogAt(entry) == {k \in 1..Len(sr_log) : sr_log[k] = entry}

\* the places of the log where a start_daemon call begins or ends
StartCalls ==
    {k \in 1..Len(sr_log) :
        sr_log[k][1] \in {"start_daemon", "returned", "raised"}}

\* start_run is over, by returning or by raising
RunOver == sr_pc \in {"done", "raised"}

\* the combined load was issued exactly once if a daemon was started and not
\* at all otherwise
OnceIffStarted ==
    Cardinality(LogAt(<<"load", "all">>)) = (IF sr_pids # <<>> THEN 1 ELSE 0)

\* no load for a single daemon, and the combined load only after the
\* start_daemon call of the last daemon is over
NoPerDaemonLoadAndLast ==
    /\ \A d \in RunDaemons : LogAt(<<"load", d>>) = {}
    /\ \A k \in LogAt(<<"load", "all">>) :
           /\ \A j \in StartCalls : j < k
           /\ sr_i = Len(sr_daemons)

\* C34 as stated: whenever start_run is over, the combined load was issued
\* exactly once if at least one daemon was started and not at all otherwise,
\* after the last start_daemon call, with no per-daemon load.
C34_OneLoadIffStarted ==
    /\ NoPerDaemonLoadAndLast
    /\ RunOver => OnceIffStarted

\* C34 amended: the same for a start_run in which no start_daemon call
\* raised; a start_daemon call that raises ends start_run with no load at
\* all, whatever was started before it.
C34_OneLoadIffStartedUnlessRaised ==
    /\ NoPerDaemonLoadAndLast
    /\ (RunOver /\ sr_i = Len(sr_daemons)) => OnceIffStarted
    /\ (sr_pc = "raised" /\ sr_i < Len(sr_daemons)) =>
           LogAt(<<"load", "all">>) = {}

\* two daemons were started, a third skipped, and the one load followed
C34_Witness ==
    /\ sr_pc = "done"
    /\ Len(sr_daemons) = 3
    /\ Cardinality(DOMAIN sr_pids) = 2
    /\ sr_log[Len(sr_log)] = <<"load", "all">>

(***************************************************************************)
(* nswrap.py: LinuxNamespace.start, the processes it starts and the /proc  *)
(* scan of find_child.                                                     *)
(***************************************************************************)
\* the harness process, and the pids the started processes can get
Harness == [pid |-> 5]
UnsharePids == {10, 11}
InnerPids == {20, 21}

\* processes that have nothing to do with the namespace, pid to parent pid
OtherProcs == {<<30, 1>>, <<31, 30>>, <<32, 5>>}

\* the dict as a function, and one entry added to or removed from it
ProcTable(pairs) ==
    [p \in {q[1] : q \in pairs} |-> (CHOOSE q \in pairs : q[1] = p)[2]]

\* the processes that hold the write end of the stdout pipe
Writers ==
    (IF ls_unshare.state = "running" THEN {ls_unshare.pid} ELSE {})
        \cup (IF ls_inner.state \in {"setup", "ready"}
              THEN {ls_inner.pid} ELSE {})

\* a plausible slip: start does not wait for the byte
ReadNeverBlocks(pipe, writers) == FALSE

\* stdout.read(1) blocks while the pipe is empty and somebody can write
ReadBlocks(pipe, writers) == pipe = 0 /\ writers # {}

\* find_child(parent): the pids of /proc whose status has "PPid:" parent
FindChild(proc, parent) == {p \in DOMAIN proc : proc[p] = parent}

\* subprocess.Popen([unshare, "-u", "-m", "-n", "-p", "-f", ...]) with pipes
\* for stdin and stdout
LsPopen(pid) ==
    /\ ls_pc = "popen"
    /\ ls_unshare' = [pid |-> pid, state |-> "running"]
    /\ ls_proc' = DictSet(ls_proc, pid, Harness.pid)
    /\ ls_pc' = "read"
    /\ UNCHANGED <<ls_inner, ls_pipe, ls_got, ls_pid, ls_exc>>
    /\ UNCHANGED notNsStart

\* unshare creates the namespaces and forks (-f) the process that runs
\* topotato.nswrap, or fails (no permission) and exits
UnshareFork(ok, pid) ==
    /\ ls_unshare.state = "running"
    /\ ls_inner.state = "none"
    /\ IF ok
       THEN /\ ls_inner' = [pid |-> pid, state |-> "setup"]
            /\ ls_proc' = DictSet(ls_proc, pid, ls_unshare.pid)
            /\ UNCHANGED ls_unshare
       ELSE /\ ls_unshare' = [ls_unshare EXCEPT !.state = "exited"]
            /\ UNCHANGED <<ls_inner, ls_proc>>
    /\ UNCHANGED <<ls_pc, ls_pipe, ls_got, ls_pid, ls_exc>>
    /\ UNCHANGED notNsStart

\* inner(): hostname, mount, SIGCHLD pipe, task file lock, then
\* sys.stdout.write("\n") and flush; a failing step ends the process
InnerSetup(ok) ==
    /\ ls_inner.state = "setup"
    /\ IF ok
       THEN /\ ls_inner' = [ls_inner EXCEPT !.state = "ready"]
            /\ ls_pipe' = ls_pipe + 1
       ELSE /\ ls_inner' = [ls_inner EXCEPT !.state = "zombie"]
            /\ UNCHANGED ls_pipe
    /\ UNCHANGED <<ls_pc, ls_proc, ls_unshare, ls_got, ls_pid, ls_exc>>
    /\ UNCHANGED notNsStart

\* the process of the namespace dies after it has signalled readiness
InnerDies ==
    /\ ls_inner.state = "ready"
    /\ ls_inner' = [ls_inner EXCEPT !.state = "zombie"]
    /\ UNCHANGED <<ls_pc, ls_proc, ls_unshare, ls_pipe, ls_got, ls_pid,
                   ls_exc>>
    /\ UNCHANGED notNsStart

\* unshare -f waits for the process it forked and exits with its status
UnshareReap ==
    /\ ls_unshare.state = "running"
    /\ ls_inner.state = "zombie"
    /\ ls_inner' = [ls_inner EXCEPT !.state = "reaped"]
    /\ ls_proc' = DictDel(ls_proc, ls_inner.pid)
    /\ ls_unshare' = [ls_unshare EXCEPT !.state = "exited"]
    /\ UNCHANGED <<ls_pc, ls_pipe, ls_got, ls_pid, ls_exc>>
    /\ UNCHANGED notNsStart

\* "self.process.stdout.read(1)" returns: one byte, or b"" at end of file
LsRead ==
    /\ ls_pc = "read"
    /\ ~ReadBlocks(ls_pipe, Writers)
    /\ IF ls_pipe > 0
       THEN ls_got' = "byte" /\ ls_pipe' = ls_pipe - 1
       ELSE ls_got' = "empty" /\ UNCHANGED ls_pipe
    /\ ls_pc' = "find_child"
    /\ UNCHANGED <<ls_proc, ls_unshare, ls_inner, ls_pid, ls_exc>>
    /\ UNCHANGED notNsStart

\* "self.pid = find_child(self.process.pid)": the first process found with
\* that parent, or ValueError
LsFindChild ==
    /\ ls_pc = "find_child"
    /\ LET found == FindChild(ls_proc, ls_unshare.pid) IN
           IF found = {}
           THEN /\ ls_exc' = "ValueError"
                /\ ls_pc' = "raised"
                /\ UNCHANGED ls_pid
           ELSE /\ \E p \in found : ls_pid' = Some(p)
                /\ ls_pc' = "done"
                /\ UNCHANGED ls_exc
    /\ UNCHANGED <<ls_proc, ls_unshare, ls_inner, ls_pipe, ls_got>>
    /\ UNCHANGED notNsStart

\* LinuxNamespace.__init__ has run, other processes exist
InitNsStart ==
    /\ MuxInit /\ VtyshParked /\ RouterParked /\ StartParked /\ StopParked
    /\ LifecycleParked
    /\ DoStartParked
    /\ TicksParked
    /\ LeaksParked
    /\ AtexitParked
    /\ NetParked
    /\ NsParked
    /\ CaretakerParked
    /\ ConnParked
    /\ LoopParked
    /\ EnvParked
    /\ MuxParked
    /\ ReadParked
    /\ RunParked
    /\ ScanParked
    /\ ls_pc = "popen"
    /\ \E others \in SUBSET OtherProcs : ls_proc = ProcTable(others)
    /\ ls_unshare = [pid |-> 0, state |-> "none"]
    /\ ls_inner = [pid |-> 0, state |-> "none"]
    /\ ls_pipe = 0
    /\ ls_got = "none"
    /\ ls_pid = None
    /\ ls_exc = NoExc

NextNsStart ==
    \/ \E pid \in UnsharePids : LsPopen(pid)
    \/ \E ok \in BOOLEAN, pid \in InnerPids : UnshareFork(ok, pid)
    \/ \E ok \in BOOLEAN : InnerSetup(ok)
    \/ InnerDies
    \/ UnshareReap
    \/ LsRead
    \/ LsFindChild

SpecNsStart == InitNsStart /\ [][NextNsStart]_vars

\* the namespace's process ended, or never came to be, without having
\* written the readiness byte
ExitedBeforeReady ==
    /\ ls_unshare.state = "exited"
    /\ ls_got # "byte"
    /\ ls_pipe = 0

\* C35: start takes the pid of the process whose parent is the process it
\* started only after it has read the one readiness byte; when that process
\* ends without having signalled readiness, start ends with an error and no
\* pid is recorded.
C35_PidOnlyAfterReadiness ==
    /\ ls_pid # None =>
           /\ ls_got = "byte"
           /\ ls_pid = Some(ls_inner.pid)
    /\ (ExitedBeforeReady /\ ls_pc \in {"done", "raised"}) =>
           /\ ls_pc = "raised"
           /\ ls_exc = "ValueError"
           /\ ls_pid = None

\* the setup inside the namespace failed among other processes, and start
\* raised
C35_Witness ==
    /\ ls_pc = "raised"
    /\ ls_got = "empty"
    /\ ls_inner.state = "reaped"
    /\ Cardinality(DOMAIN ls_proc) = 4

(***************************************************************************)
(* nswrap.py: the system calls of __enter__ and where a failed __enter__   *)
(* leaves the process.                                                     *)
(***************************************************************************)
\* how often the call is among the system calls of the last __enter__
CallCount(calls, c) == Cardinality({k \in 1..Len(calls) : calls[k] = c})

\* the last __enter__ was on a running namespace
EnteredRunning == ns_last # None /\ ns_last[1].raised # "ValueError"

\* C36: the scratch mount namespace and the second setns are used only after
\* setns on the mount namespace failed with EINVAL, and the second setns is
\* made once; __enter__ raises LinuxNamespaceJoinFailed, with no system call
\* after the failing one, when that second setns or the unshare fails, when
\* setns fails for the network namespace (with EINVAL too), and when setns
\* on the mount namespace fails with another error; otherwise it returns.
C36_OneRetryForMntEinvalOnly ==
    EnteredRunning =>
        LET l == ns_last[1]
            setnsNet == <<"setns", "net">>
            setnsMnt == <<"setns", "mnt">>
            unshareMnt == <<"unshare", "mnt">>
            workaround == l.net = "ok" /\ l.mnt = "EINVAL"
        IN  /\ CallCount(l.calls, setnsNet) = 1
            /\ CallCount(l.calls, unshareMnt) = (IF workaround THEN 1 ELSE 0)
            /\ CallCount(l.calls, setnsMnt) =
                   (IF l.net # "ok" THEN 0
                    ELSE IF workaround /\ l.unshare THEN 2 ELSE 1)
            /\ workaround =>
                   SubSeq(l.calls, 1, 3) = <<setnsNet, setnsMnt, unshareMnt>>
            /\ (l.raised = "LinuxNamespaceJoinFailed") <=>
                   \/ l.net # "ok"
                   \/ l.mnt \notin {"ok", "EINVAL"}
                   \/ (l.mnt = "EINVAL" /\ ~(l.unshare /\ l.retry))

\* the second setns failed too, and __enter__ raised after four system calls
C36_Witness ==
    /\ EnteredRunning
    /\ ns_last[1].mnt = "EINVAL" /\ ns_last[1].unshare /\ ~ns_last[1].retry
    /\ Len(ns_last[1].calls) = 4
    /\ ns_exc = "LinuxNamespaceJoinFailed"

\* C39: when __enter__ raises, for a namespace that is not running or with
\* LinuxNamespaceJoinFailed, the process is in the network and mount
\* namespaces it was in before the call.
C39_FailedEnterChangesNothing ==
    (ns_last # None /\ ns_last[1].raised # NoExc) =>
        ns_last[1].post = ns_last[1].pre

(***************************************************************************)
(* leaks.py: the loop of FDState.__init__, one probe at a time, over       *)
(* descriptor tables with holes around stop_after numbers wide.            *)
(***************************************************************************)
\* the descriptor numbers that can be open: between 3 and 258 lie 254
\* numbers, between 259 and 515 lie 255
ScanFds == {0, 1, 2, 3, 258, 259, 515}

\* a plausible slip: the count of failed probes is not reset
StopKept(stop) == stop

\* "stop = 0" after a descriptor that is open
StopAfterLive(stop) == 0

\* one turn of "for fd in itertools.count()": os.fstat(fd) raises EBADF and
\* the turn counts it, breaking at stop_after, or the key is recorded
ScStep ==
    /\ sc_pc = "scan"
    /\ IF sc_fd \notin DOMAIN sc_table
       THEN /\ sc_stop' = sc_stop + 1
            /\ IF sc_stop + 1 >= StopAfter
               THEN sc_pc' = "done" /\ UNCHANGED sc_fd
               ELSE sc_fd' = sc_fd + 1 /\ UNCHANGED sc_pc
            /\ UNCHANGED sc_self
       ELSE /\ sc_self' = DictSet(sc_self, sc_fd, sc_table[sc_fd])
            /\ sc_stop' = StopAfterLive(sc_stop)
            /\ sc_fd' = sc_fd + 1
            /\ UNCHANGED sc_pc
    /\ UNCHANGED <<sc_table, sc_init>>
    /\ UNCHANGED notScan

\* FDState() is called with some descriptors open
InitScan ==
    /\ MuxInit /\ VtyshParked /\ RouterParked /\ StartParked /\ StopParked
    /\ LifecycleParked
    /\ DoStartParked
    /\ TicksParked
    /\ LeaksParked
    /\ AtexitParked
    /\ NetParked
    /\ NsParked
    /\ CaretakerParked
    /\ ConnParked
    /\ LoopParked
    /\ EnvParked
    /\ MuxParked
    /\ ReadParked
    /\ RunParked
    /\ NsStartParked
    /\ \E open \in SUBSET ScanFds :
           sc_table = [fd \in open |->
                          IF fd \in {1, 259} THEN <<"S_IFSOCK", 8, 7>>
                          ELSE PipeKey]
    /\ sc_init = sc_table
    /\ sc_fd = 0
    /\ sc_stop = 0
    /\ sc_self = <<>>
    /\ sc_pc = "scan"

NextScan == ScStep

SpecScan == InitScan /\ [][NextScan]_vars

\* the loop is not kept from taking its next turn
SpecScanLive == SpecScan /\ WF_vars(ScStep)

\* n and the stop_after - 1 numbers after it are all closed
ClosedRun(n) == \A fd \in DOMAIN sc_init : fd < n \/ fd > n + StopAfter - 1

\* the first number that begins stop_after closed numbers in a row
FirstClosedRun ==
    LET runs == {n \in 0..(515 + 1) : ClosedRun(n)}
    IN  CHOOSE n \in runs : \A m \in runs : n <= m

\* the descriptor table as the operators of the snapshot take it
AsFdTable(t) ==
    [fd \in 0..(515 + StopAfter) |-> IF fd \in DOMAIN t THEN t[fd] ELSE None]

\* what holds in every state of the scan
ScanExact ==
    /\ sc_table = sc_init
    /\ sc_pc = "scan" =>
           sc_self = [fd \in {f \in DOMAIN sc_init : f < sc_fd} |-> sc_init[fd]]
    /\ sc_pc = "done" =>
           /\ sc_fd = FirstClosedRun + StopAfter - 1
           /\ sc_self = [fd \in {f \in DOMAIN sc_init : f < FirstClosedRun}
                            |-> sc_init[fd]]
           /\ sc_self = FDState(AsFdTable(sc_init))

\* C37: the scan probes the numbers upward from 0 and ends, which it always
\* does, only with the stop_after-th closed number in a row: the snapshot
\* holds exactly the open descriptors below the first run of stop_after
\* closed numbers, each with its key, so that a narrower hole hides
\* nothing, and the descriptor table is as it was.
C37_ScanStopsAfterFullRun == []ScanExact /\ <>(sc_pc = "done")

\* the snapshot holds 515 beyond a hole of 255 closed numbers and a
\* descriptor beyond a hole of 254
C37_Witness ==
    /\ sc_pc = "done"
    /\ DOMAIN sc_self = {0, 3, 258, 259, 515}

(***************************************************************************)
(* frr/core.py: stop_daemon and the pids dict.                             *)
(***************************************************************************)
\* the call of stop_daemon has got past "del self.pids[daemon]", or has
\* returned at once because the daemon was not in pids
StopCalled == st_pc \in {"sleep", "done", "raised"}

\* a stop_daemon call for the daemon of the call before it
SecondStop ==
    /\ StopCalled
    /\ ncalls' = ncalls + 1
    /\ st_daemon' = st_daemon

\* the call sends no signal, raises nothing, returns, and pids is as it was
StopIsNoOp ==
    /\ signals' = signals
    /\ pids' = pids
    /\ st_pc' = "done"
    /\ st_exc' = NoException

\* C38: from the first signal of a stop_daemon call on, and after the call
\* returned or raised TopotatoDaemonCrash or TopotatoDaemonStopFail, the
\* daemon is not a key of pids; a call for a daemon that is not in pids sends
\* no signal and returns; so a stop_daemon call that follows another one for
\* the same daemon does nothing.
C38_StoppedDaemonNotInPids ==
    /\ [](StopCalled =>
              /\ st_daemon \notin DOMAIN pids
              /\ firstKill = "none" =>
                     /\ Len(signals) = sigsBefore
                     /\ st_pc = "done"
                     /\ st_exc = NoException)
    /\ [][SecondStop => StopIsNoOp]_vars

\* a second stop_daemon for a daemon whose first stop_daemon raised
\* TopotatoDaemonStopFail after six signals
C38_Witness ==
    /\ ncalls = 2
    /\ st_pc = "done"
    /\ firstKill = "none"
    /\ Len(signals) = 6
    /\ \A k \in 1..Len(signals) : signals[k].pid = PidOf(st_daemon)
====
